---- MODULE Spec2Model ----
(***************************************************************************)
(* A model of the yarn-spool conversation engine (src/src/engine.rs):      *)
(* the node registry, the conversation position (node, base index, scope   *)
(* stack), the variable store, the function registry and the pull loop of  *)
(* YarnEngine::next, one action per host operation and per arm of the      *)
(* loop's match.  Indexes are 0-based as in the source; TLA+ sequences are *)
(* 1-based, so a step at index i of a Vec is element i + 1.                *)
(***************************************************************************)
EXTENDS Integers, Sequences, FiniteSets, TLC

VARIABLES
    nodes,             \* NodeState.nodes: NodeName -> Node
    conversation,      \* NodeState.conversation: Option<Conversation>
    variables,         \* EngineState.variables: VariableName -> Value
    functions,         \* EngineState.functions: name -> Function
    conversion_ended,  \* YarnEngine.conversion_ended
    pc,                \* "idle": between host calls; "next": inside the loop
                       \* of YarnEngine::next; "panic": the program aborted
    ret,               \* what the last completed call returned
    op,                \* the host operation that last ran (or is running)
    tokenizer          \* the input a running parse has not consumed yet
                       \* (tokens or lines); empty when no parse runs

vars == <<nodes, conversation, variables, functions, conversion_ended,
          pc, ret, op, tokenizer>>

(***************************************************************************)
(* Bounds of the model.                                                    *)
(***************************************************************************)
\* choose(i) is called with i in 0..MaxChoice
MaxChoice == 3
\* register_function is called with num_args in 0..MaxArgs
MaxArgs == 1
\* a conditional region is parsed from texts of at most MaxLines lines
MaxLines == 6
\* a node is parsed from texts with at most MaxHeaderLines header lines
MaxHeaderLines == 3

(***************************************************************************)
(* Values (enum Value) and their coercions.                                *)
(***************************************************************************)
StringV(s) == [type |-> "String", s |-> s]
NumberV(f) == [type |-> "Number", f |-> f]
BooleanV(b) == [type |-> "Boolean", b |-> b]

(***************************************************************************)
(* f32.  A number is sign, numerator and denominator of a reduced          *)
(* fraction: den = 1 for an integer (the zeros are signed, as in IEEE      *)
(* 754), den = 0 for the infinities (num = 1) and for NaN (num = 0).  The  *)
(* scripts and hosts of this model hold small integers, whose sums,        *)
(* differences and products f32 computes exactly; a quotient is kept as    *)
(* the exact fraction in place of its nearest f32.                         *)
(***************************************************************************)
RECURSIVE Gcd(_, _)
Gcd(m, n) == IF n = 0 THEN m ELSE Gcd(n, m % n)

\* the finite number (-1)^neg * num / den, den > 0, in reduced form
Reduce(neg, num, den) ==
    LET g == Gcd(num, den)
    IN  [neg |-> neg, num |-> num \div g, den |-> den \div g]

\* an integer n as f32 (a numeric literal, b as isize as f32)
F32(n) == [neg |-> n < 0, num |-> IF n < 0 THEN -n ELSE n, den |-> 1]

NaN == [neg |-> FALSE, num |-> 0, den |-> 0]
Infinity(neg) == [neg |-> neg, num |-> 1, den |-> 0]
Zero(neg) == [neg |-> neg, num |-> 0, den |-> 1]

IsNaN(x) == x.num = 0 /\ x.den = 0
IsInfinite(x) == x.num # 0 /\ x.den = 0
IsZero(x) == x.num = 0 /\ x.den # 0

\* the numerator with its sign
Signed(x) == IF x.neg THEN -x.num ELSE x.num

\* f32 negation
FNeg(x) == IF IsNaN(x) THEN NaN ELSE [x EXCEPT !.neg = ~@]

\* f32 + f32
FAdd(x, y) ==
    IF IsNaN(x) \/ IsNaN(y) THEN NaN
    ELSE IF IsInfinite(x) THEN (IF IsInfinite(y) /\ x.neg # y.neg THEN NaN ELSE x)
    ELSE IF IsInfinite(y) THEN y
    ELSE LET s == Signed(x) * y.den + Signed(y) * x.den
         IN  IF s = 0 THEN Zero(IsZero(x) /\ x.neg /\ y.neg)
             ELSE Reduce(s < 0, IF s < 0 THEN -s ELSE s, x.den * y.den)

\* f32 - f32
FSub(x, y) == FAdd(x, FNeg(y))

\* f32 * f32
FMul(x, y) ==
    IF IsNaN(x) \/ IsNaN(y) THEN NaN
    ELSE IF (IsInfinite(x) /\ IsZero(y)) \/ (IsZero(x) /\ IsInfinite(y)) THEN NaN
    ELSE IF IsInfinite(x) \/ IsInfinite(y) THEN Infinity(x.neg # y.neg)
    ELSE Reduce(x.neg # y.neg, x.num * y.num, x.den * y.den)

\* f32 / f32
FDiv(x, y) ==
    IF IsNaN(x) \/ IsNaN(y) THEN NaN
    ELSE IF (IsZero(x) /\ IsZero(y)) \/ (IsInfinite(x) /\ IsInfinite(y)) THEN NaN
    ELSE IF IsInfinite(x) \/ IsZero(y) THEN Infinity(x.neg # y.neg)
    ELSE IF IsInfinite(y) THEN Zero(x.neg # y.neg)
    ELSE Reduce(x.neg # y.neg, x.num * y.den, x.den * y.num)

\* f32 == f32: NaN equals nothing, the two zeros are equal
FEq(x, y) ==
    /\ ~IsNaN(x)
    /\ ~IsNaN(y)
    /\ (IsZero(x) /\ IsZero(y)) \/ x = y

\* f32 < f32: false when an operand is NaN
FLt(x, y) ==
    /\ ~IsNaN(x)
    /\ ~IsNaN(y)
    /\ ~FEq(x, y)
    /\ IF IsInfinite(x) THEN x.neg
       ELSE IF IsInfinite(y) THEN ~y.neg
       ELSE Signed(x) * y.den < Signed(y) * x.den

Digit(d) ==
    CASE d = 0 -> "0" [] d = 1 -> "1" [] d = 2 -> "2" [] d = 3 -> "3"
      [] d = 4 -> "4" [] d = 5 -> "5" [] d = 6 -> "6" [] d = 7 -> "7"
      [] d = 8 -> "8" [] d = 9 -> "9"

RECURSIVE NatToString(_)
NatToString(n) ==
    IF n < 10 THEN Digit(n) ELSE NatToString(n \div 10) \o Digit(n % 10)

\* f32::to_string: "NaN", "inf", "-inf"; an integral value as its digits
\* with no fraction ("3", "-0"); a value of at most two decimals as the
\* shortest decimal ("0.5", "1.25").  Other fractions are not stringified by
\* any expression of this model.
NumToString(f) ==
    LET sign == IF f.neg THEN "-" ELSE ""
        hundredths == (f.num * 100) \div f.den
        whole == hundredths \div 100
        fraction == hundredths % 100
    IN  CASE IsNaN(f) -> "NaN"
          [] IsInfinite(f) -> sign \o "inf"
          [] f.den = 1 -> sign \o NatToString(f.num)
          [] f.den > 1 /\ 100 % f.den = 0 ->
                sign \o NatToString(whole) \o "." \o
                    (IF fraction % 10 = 0 THEN Digit(fraction \div 10)
                     ELSE Digit(fraction \div 10) \o Digit(fraction % 10))

as_string(v) ==
    CASE v.type = "Boolean" -> (IF v.b THEN "true" ELSE "false")
      [] v.type = "String" -> v.s
      [] v.type = "Number" -> NumToString(v.f)

as_bool(v) ==
    CASE v.type = "Boolean" -> v.b
      [] v.type = "String" -> v.s # ""
      [] v.type = "Number" -> ~FEq(v.f, F32(0))

\* a numeric coercion that counts a non-empty string as 1
as_num_NonEmptyIsOne(v) ==
    CASE v.type = "Boolean" -> (IF v.b THEN F32(1) ELSE F32(0))
      [] v.type = "String" -> (IF v.s # "" THEN F32(1) ELSE F32(0))
      [] v.type = "Number" -> v.f

as_num(v) ==
    CASE v.type = "Boolean" -> (IF v.b THEN F32(1) ELSE F32(0))
      [] v.type = "String" -> F32(0)
      [] v.type = "Number" -> v.f

\* an equality that holds only between values of the same variant
ValueEq_SameVariant(a, b) == a = b

\* impl PartialEq for Value: the arms in the order of the match
ValueEq(a, b) ==
    IF a.type = "String" THEN a.s = as_string(b)
    ELSE IF b.type = "String" THEN b.s = as_string(a)
    ELSE IF a.type = "Number" THEN FEq(a.f, as_num(b))
    ELSE IF b.type = "Number" THEN FEq(b.f, as_num(a))
    ELSE a.b = b.b

\* impl Add for Value
ValueAdd(a, b) ==
    IF a.type = "String" THEN StringV(a.s \o as_string(b))
    ELSE IF b.type = "String" THEN StringV(as_string(a) \o b.s)
    ELSE NumberV(FAdd(as_num(a), as_num(b)))

\* impl Sub for Value
ValueSub(a, b) == NumberV(FSub(as_num(a), as_num(b)))

\* impl Mul for Value
ValueMul(a, b) == NumberV(FMul(as_num(a), as_num(b)))

\* impl Div for Value
ValueDiv(a, b) == NumberV(FDiv(as_num(a), as_num(b)))

(***************************************************************************)
(* The AST: enum Step, enum ChoiceKind, enum Expr, enum Term.              *)
(***************************************************************************)
External(text, name) == [text |-> text, kind |-> "External", node |-> name]
Inline(text, steps) == [text |-> text, kind |-> "Inline", steps |-> steps]

Dialogue(text, choices) == [kind |-> "Dialogue", text |-> text, choices |-> choices]
Command(text) == [kind |-> "Command", text |-> text]
Assign(name, expr) == [kind |-> "Assign", name |-> name, expr |-> expr]
Conditional(expr, if_steps, else_ifs, else_steps) ==
    [kind |-> "Conditional", expr |-> expr, if_steps |-> if_steps,
     else_ifs |-> else_ifs, else_steps |-> else_steps]
Jump(name) == [kind |-> "Jump", node |-> name]

Term(v) == [kind |-> "Term", value |-> v]
Variable(n) == [kind |-> "Variable", name |-> n]
Function(name, args) == [kind |-> "Function", name |-> name, args |-> args]
Unary(o, e) == [kind |-> "Unary", op |-> o, expr |-> e]
Binary(o, l, r) == [kind |-> "Binary", op |-> o, left |-> l, right |-> r]
Parentheses(e) == [kind |-> "Parentheses", expr |-> e]

Node(title, steps) == [title |-> title, steps |-> steps, visited |-> FALSE]

(***************************************************************************)
(* Host callbacks.  "visited" is the closure YarnEngine::new registers;    *)
(* "host_true" and "host_err" stand for closures the host registers: one   *)
(* that returns Ok(Boolean(true)) and one that returns Err(()).            *)
(***************************************************************************)
Ok(v) == [ok |-> TRUE, v |-> v]
Err == [ok |-> FALSE]

HostCallbacks == {"host_true", "host_err"}

visited_callback(args, state) ==
    IF args[1].type = "String"
    THEN IF args[1].s \in DOMAIN state
         THEN Ok(BooleanV(state[args[1].s].visited))
         ELSE Err
    ELSE Err

Call(callback, args, state) ==
    CASE callback = "visited" -> visited_callback(args, state)
      [] callback = "host_true" -> Ok(BooleanV(TRUE))
      [] callback = "host_err" -> Err

(***************************************************************************)
(* EngineState::evaluate.  Every `?` returns the first error met; since    *)
(* all errors are the same Err(()), and the callbacks above have no side   *)
(* effect, the result is an error iff some operand evaluated is one.       *)
(***************************************************************************)
ApplyBinary(o, l, r) ==
    CASE o = "And" -> BooleanV(as_bool(l) /\ as_bool(r))
      [] o = "Or" -> BooleanV(as_bool(l) \/ as_bool(r))
      [] o = "Plus" -> ValueAdd(l, r)
      [] o = "Minus" -> ValueSub(l, r)
      [] o = "Multiply" -> ValueMul(l, r)
      [] o = "Divide" -> ValueDiv(l, r)
      [] o = "Equals" -> BooleanV(ValueEq(l, r))
      [] o = "NotEquals" -> BooleanV(~ValueEq(l, r))
      [] o = "GreaterThan" -> BooleanV(FLt(as_num(r), as_num(l)))
      [] o = "GreaterThanEqual" -> BooleanV(FLt(as_num(r), as_num(l)) \/ FEq(as_num(l), as_num(r)))
      [] o = "LessThan" -> BooleanV(FLt(as_num(l), as_num(r)))
      [] o = "LessThanEqual" -> BooleanV(FLt(as_num(l), as_num(r)) \/ FEq(as_num(l), as_num(r)))

\* a lookup that yields a default value for a variable never assigned
lookup_variable_Defaults(name, vs) ==
    IF name \in DOMAIN vs THEN Ok(vs[name]) ELSE Ok(NumberV(F32(0)))

\* self.variables.0.get(n).cloned().ok_or(())
lookup_variable(name, vs) ==
    IF name \in DOMAIN vs THEN Ok(vs[name]) ELSE Err

\* an and / or that decides by its left operand alone when it can
BinaryResult_ShortCircuits(o, l, r) ==
    IF ~l.ok THEN Err
    ELSE IF o = "And" /\ ~as_bool(l.v) THEN Ok(BooleanV(FALSE))
    ELSE IF o = "Or" /\ as_bool(l.v) THEN Ok(BooleanV(TRUE))
    ELSE IF ~r.ok THEN Err
    ELSE Ok(ApplyBinary(o, l.v, r.v))

\* Expr::Binary: let left = self.evaluate(left, state)?; let right =
\* self.evaluate(right, state)?; the operator is applied to both values
BinaryResult(o, l, r) ==
    IF ~l.ok THEN Err
    ELSE IF ~r.ok THEN Err
    ELSE Ok(ApplyBinary(o, l.v, r.v))

RECURSIVE evaluate(_, _, _, _)
evaluate(expr, vs, fs, state) ==
    CASE expr.kind = "Parentheses" -> evaluate(expr.expr, vs, fs, state)
      [] expr.kind = "Term" -> Ok(expr.value)
      [] expr.kind = "Variable" -> lookup_variable(expr.name, vs)
      [] expr.kind = "Function" ->
            LET rs == [i \in 1..Len(expr.args) |->
                          evaluate(expr.args[i], vs, fs, state)]
            IN  IF \E i \in 1..Len(expr.args) : ~rs[i].ok THEN Err
                ELSE IF expr.name \notin DOMAIN fs THEN Err
                ELSE IF fs[expr.name].num_args # Len(expr.args) THEN Err
                ELSE Call(fs[expr.name].callback,
                          [i \in 1..Len(expr.args) |-> rs[i].v], state)
      [] expr.kind = "Unary" ->
            LET r == evaluate(expr.expr, vs, fs, state)
            IN  IF ~r.ok THEN Err
                ELSE IF expr.op = "Not" THEN Ok(BooleanV(~as_bool(r.v)))
                ELSE Ok(NumberV(FNeg(as_num(r.v))))
      [] expr.kind = "Binary" ->
            BinaryResult(expr.op, evaluate(expr.left, vs, fs, state),
                         evaluate(expr.right, vs, fs, state))

(***************************************************************************)
(* Conversation and StepIndex.                                             *)
(***************************************************************************)
NoConversation == [some |-> FALSE]
NewConversation(node) ==
    [some |-> TRUE, node |-> node, base_index |-> 0, indexes |-> <<>>]

SIDialogue(choice, idx) == [kind |-> "Dialogue", sel |-> choice, idx |-> idx]
SIIf(idx) == [kind |-> "If", idx |-> idx]
SIElseIf(index, idx) == [kind |-> "ElseIf", sel |-> index, idx |-> idx]
SIElse(idx) == [kind |-> "Else", idx |-> idx]

\* StepIndex::advance
StepIndexAdvance(index) == [index EXCEPT !.idx = @ + 1]

\* a set_conversation that changes the node and keeps the position
set_conversation_KeepsPosition(name) == [conversation EXCEPT !.node = name]

\* NodeState::set_conversation(Some(name))
set_conversation(name) == NewConversation(name)

\* a push_step that replaces the stack by the new entry
push_step_Replaces(conv, index) == [conv EXCEPT !.indexes = <<index>>]

\* NodeState::push_step
push_step(conv, index) == [conv EXCEPT !.indexes = Append(@, index)]

\* an advance that leaves the position as it is
advance_Stays(conv) == conv

\* NodeState::advance
advance(conv) ==
    IF conv.indexes # <<>>
    THEN [conv EXCEPT !.indexes[Len(conv.indexes)] = StepIndexAdvance(@)]
    ELSE [conv EXCEPT !.base_index = @ + 1]

(***************************************************************************)
(* NodeState::get_current_step.  The result is Panicked (an expect, an     *)
(* index out of bounds or an unreachable!() was hit), NoStep (None) or     *)
(* SomeStep(step).                                                         *)
(***************************************************************************)
Panicked == [tag |-> "Panic"]
NoStep == [tag |-> "None"]
SomeStep(step) == [tag |-> "Some", step |-> step]

RECURSIVE Resolve(_, _, _)
Resolve(steps, current_step_index, indexes) ==
    IF indexes = <<>>
    THEN IF current_step_index < Len(steps)
         THEN SomeStep(steps[current_step_index + 1])
         ELSE NoStep
    ELSE IF current_step_index >= Len(steps) THEN Panicked
    ELSE LET step == steps[current_step_index + 1]
             index == Head(indexes)
             rest == Tail(indexes)
         IN  IF step.kind = "Dialogue" /\ index.kind = "Dialogue"
             THEN IF index.sel >= Len(step.choices) THEN Panicked
                  ELSE IF step.choices[index.sel + 1].kind = "Inline"
                  THEN Resolve(step.choices[index.sel + 1].steps, index.idx, rest)
                  ELSE Panicked
             ELSE IF step.kind = "Conditional" /\ index.kind = "If"
             THEN Resolve(step.if_steps, index.idx, rest)
             ELSE IF step.kind = "Conditional" /\ index.kind = "ElseIf"
             THEN IF index.sel >= Len(step.else_ifs) THEN Panicked
                  ELSE Resolve(step.else_ifs[index.sel + 1].steps, index.idx, rest)
             ELSE IF step.kind = "Conditional" /\ index.kind = "Else"
             THEN Resolve(step.else_steps, index.idx, rest)
             ELSE Panicked

get_current_step(state, conv) ==
    IF ~conv.some THEN Panicked
    ELSE IF conv.node \notin DOMAIN state THEN Panicked
    ELSE Resolve(state[conv.node].steps, conv.base_index, conv.indexes)

(***************************************************************************)
(* The scripts the host loads.  A script is given by the nodes its parse   *)
(* yields, in the order of the text; "bad" is a script the parser rejects. *)
(***************************************************************************)
StartNode ==
    Node("Start", <<
        Dialogue("Hi", <<
            External("go1", "End1"),
            External("go2", "End2"),
            Inline("stay", <<
                Command("wave"),
                Dialogue("Sure?", <<
                    Inline("yes", << Dialogue("ok", <<>>) >>),
                    External("no", "A") >>),
                Dialogue("unreached", <<>>) >>) >>),
        Dialogue("after", <<>>) >>)

End1Node ==
    Node("End1", <<
        Assign("x", Term(NumberV(F32(1)))),
        Conditional(Binary("Equals", Variable("x"), Variable("y")),
            << Assign("x", Binary("Plus", Variable("x"), Variable("y"))),
               Dialogue("same", <<>>) >>,
            << [expr |-> Variable("y"),
                steps |-> << Dialogue("y", <<>>) >>],
               [expr |-> Function("f", <<>>),
                steps |-> << Command("f"), Jump("End2") >>] >>,
            << Dialogue("else", <<>>) >>),
        Dialogue("tail", <<>>) >>)

End2Node ==
    Node("End2", <<
        Command("cmd"),
        Assign("y", Unary("Not", Variable("y"))),
        Jump("A") >>)

ANode ==
    Node("A", <<
        Conditional(Function("visited", << Term(StringV("A")) >>),
            << Jump("Start") >>,
            <<>>,
            << Dialogue("bye", <<>>) >>) >>)

\* a second script that replaces Start and adds Ghost
PatchStartNode ==
    Node("Start", <<
        Command("new"),
        Dialogue("Again", << External("go", "Ghost") >>) >>)

\* a node of plain lines and commands only
GhostNode ==
    Node("Ghost", << Dialogue("boo", <<>>), Command("hide"), Dialogue("gone", <<>>) >>)

\* a minimal node: a title and one dialogue line
SoloNode ==
    Node("Solo", << Dialogue("one", <<>>) >>)

\* two nodes whose Jump steps form a cycle before any line or command
LoopNode ==
    Node("Loop", << Jump("Back"), Dialogue("never", <<>>) >>)

BackNode ==
    Node("Back", << Jump("Loop") >>)

\* a well-formed node that a malformed one follows in the script "bad"
PreNode ==
    Node("Pre", << Dialogue("pre", <<>>) >>)

Scripts == {"main", "patch", "bad"}

\* The text of a script, node by node: WellFormed(n) is the text of a node
\* that parse_node turns into n, Malformed a text parse_node rejects.
WellFormed(n) == [wellformed |-> TRUE, node |-> n]
Malformed == [wellformed |-> FALSE]

ScriptText(s) ==
    CASE s = "main" ->
           << WellFormed(StartNode), WellFormed(End1Node),
              WellFormed(End2Node), WellFormed(ANode) >>
      [] s = "patch" ->
           << WellFormed(PatchStartNode), WellFormed(GhostNode),
              WellFormed(SoloNode), WellFormed(LoopNode),
              WellFormed(BackNode) >>
      [] s = "bad" -> << WellFormed(PreNode), Malformed >>

\* parse_node: the node, or the parse error
parse_node_text(text) == IF text.wellformed THEN Ok(text.node) ELSE Err

\* parse_nodes: nodes.push(parse_node_text(tokenizer)?) until the text ends
RECURSIVE parse_nodes(_, _)
parse_nodes(texts, parsed) ==
    IF texts = <<>> THEN Ok(parsed)
    ELSE LET node == parse_node_text(Head(texts))
         IN  IF node.ok THEN parse_nodes(Tail(texts), Append(parsed, node.v))
             ELSE Err

parse_nodes_from_string(s) == parse_nodes(ScriptText(s), <<>>)

\* the node names the host passes to activate
NodeNames == {"Start", "End1", "A", "Ghost", "Solo", "Loop"}
\* the function names the host passes to register_function
FunctionNames == {"f"}
\* the variables and values the host passes to set_variable
VariableNames == {"y"}
HostValues == {NumberV(F32(1)), NumberV(F32(2)), StringV("1"), BooleanV(FALSE)}

(***************************************************************************)
(* Return values.  A YarnEntry is Say, Choose, Command or EndConversation; *)
(* NoneRet is the None of Iterator::next, UnitRet the () of a call that    *)
(* returns nothing, OkRet / ErrRet the Result<(), ()> of choose and load.  *)
(***************************************************************************)
Say(text) == [kind |-> "Say", text |-> text]
Choose(text, choices) == [kind |-> "Choose", text |-> text, choices |-> choices]
CommandEntry(action) == [kind |-> "Command", action |-> action]
EndConversation == [kind |-> "EndConversation"]
NoneRet == [kind |-> "None"]
UnitRet == [kind |-> "Unit"]
OkRet == [kind |-> "Ok"]
ErrRet == [kind |-> "Err"]
PanicRet == [kind |-> "Panic"]

\* the choice texts collected in reverse of the declared order
ChoiceTexts_Reversed(choices) ==
    [i \in 1..Len(choices) |-> choices[Len(choices) + 1 - i].text]

\* choices.iter().map(|c| c.text.clone()).collect()
ChoiceTexts(choices) == [i \in 1..Len(choices) |-> choices[i].text]

\* an insert that keeps the value of a key that is already present
Insert_KeepsOld(map, key, value) ==
    [k \in DOMAIN map \cup {key} |-> IF k \in DOMAIN map THEN map[k] ELSE value]

\* HashMap::insert
Insert(map, key, value) ==
    [k \in DOMAIN map \cup {key} |-> IF k = key THEN value ELSE map[k]]

RECURSIVE InsertAll(_, _)
InsertAll(map, ns) ==
    IF ns = <<>> THEN map
    ELSE InsertAll(Insert(map, Head(ns).title, Head(ns)), Tail(ns))

(***************************************************************************)
(* YarnEngine::new                                                         *)
(***************************************************************************)
Init ==
    /\ nodes = << >>
    /\ conversation = NoConversation
    /\ variables = << >>
    /\ functions = [n \in {"visited"} |-> [num_args |-> 1, callback |-> "visited"]]
    /\ conversion_ended = FALSE
    /\ pc = "idle"
    /\ ret = UnitRet
    /\ op = "new"
    /\ tokenizer = << >>

(***************************************************************************)
(* The host operations.  The engine is single-threaded: the host calls an  *)
(* operation only when no call is running (pc = "idle").                   *)
(***************************************************************************)
\* a load that inserts every node that parses, also when the script fails
load_from_string_Partial(s) ==
    /\ pc = "idle"
    /\ op' = "load"
    /\ LET parsed == parse_nodes_from_string(s)
           good == SelectSeq(ScriptText(s), LAMBDA text : text.wellformed)
       IN  /\ nodes' = InsertAll(nodes, [i \in 1..Len(good) |-> good[i].node])
           /\ ret' = IF parsed.ok THEN OkRet ELSE ErrRet
    /\ UNCHANGED <<conversation, variables, functions, conversion_ended, pc>>
    /\ UNCHANGED tokenizer

\* a load that also empties the variable store
load_from_string_ClearsVariables(s) ==
    /\ pc = "idle"
    /\ op' = "load"
    /\ LET parsed == parse_nodes_from_string(s)
       IN  IF parsed.ok
           THEN /\ nodes' = InsertAll(nodes, parsed.v)
                /\ ret' = OkRet
           ELSE /\ ret' = ErrRet
                /\ UNCHANGED nodes
    /\ variables' = <<>>
    /\ UNCHANGED <<conversation, functions, conversion_ended, pc>>
    /\ UNCHANGED tokenizer

\* YarnEngine::load_from_string
load_from_string(s) ==
    /\ pc = "idle"
    /\ op' = "load"
    /\ LET parsed == parse_nodes_from_string(s)
       IN  IF parsed.ok
           THEN /\ nodes' = InsertAll(nodes, parsed.v)
                /\ ret' = OkRet
           ELSE /\ ret' = ErrRet
                /\ UNCHANGED nodes
    /\ UNCHANGED <<conversation, variables, functions, conversion_ended, pc>>
    /\ UNCHANGED tokenizer

\* YarnEngine::register_function
register_function(name, num_args, callback) ==
    /\ pc = "idle"
    /\ op' = "register_function"
    /\ functions' = Insert(functions, name,
                           [num_args |-> num_args, callback |-> callback])
    /\ ret' = UnitRet
    /\ UNCHANGED <<nodes, conversation, variables, conversion_ended, pc>>
    /\ UNCHANGED tokenizer

\* YarnEngine::set_variable
set_variable(name, value) ==
    /\ pc = "idle"
    /\ op' = "set_variable"
    /\ variables' = Insert(variables, name, value)
    /\ ret' = UnitRet
    /\ UNCHANGED <<nodes, conversation, functions, conversion_ended, pc>>
    /\ UNCHANGED tokenizer

\* an activate that leaves the ended flag as it is
activate_KeepsEnded(node) ==
    /\ pc = "idle"
    /\ op' = "activate"
    /\ conversation' = NewConversation(node)
    /\ ret' = UnitRet
    /\ UNCHANGED <<nodes, variables, functions, conversion_ended, pc>>
    /\ UNCHANGED tokenizer

\* YarnEngine::activate
activate(node) ==
    /\ pc = "idle"
    /\ op' = "activate"
    /\ conversation' = NewConversation(node)
    /\ conversion_ended' = FALSE
    /\ ret' = UnitRet
    /\ UNCHANGED <<nodes, variables, functions, pc>>
    /\ UNCHANGED tokenizer

\* YarnEngine::choose: the outcome of the call in the current state
\* ("Panic", "None", "External", "Inline")
ChooseOutcome(choice) ==
    LET step == get_current_step(nodes, conversation)
    IN  IF step.tag = "Panic" THEN "Panic"
        ELSE IF step.tag = "None" THEN "None"
        ELSE IF step.step.kind # "Dialogue" THEN "Panic"
        ELSE IF choice >= Len(step.step.choices) THEN "Panic"
        ELSE step.step.choices[choice + 1].kind

\* YarnEngine::choose
choose(choice) ==
    /\ pc = "idle"
    /\ op' = "choose"
    /\ LET step == get_current_step(nodes, conversation)
           outcome == ChooseOutcome(choice)
       IN  CASE outcome = "External" ->
                  /\ conversation' =
                         set_conversation(step.step.choices[choice + 1].node)
                  /\ ret' = OkRet
                  /\ pc' = "idle"
             [] outcome = "Inline" ->
                  /\ conversation' = push_step(conversation, SIDialogue(choice, 0))
                  /\ ret' = OkRet
                  /\ pc' = "idle"
             [] outcome = "None" ->
                  /\ ret' = OkRet
                  /\ UNCHANGED <<conversation, pc>>
             [] outcome = "Panic" ->
                  /\ ret' = PanicRet
                  /\ pc' = "panic"
                  /\ UNCHANGED conversation
    /\ UNCHANGED <<nodes, variables, functions, conversion_ended>>
    /\ UNCHANGED tokenizer

(***************************************************************************)
(* YarnEngine::next (Iterator::next): one action per way an iteration of   *)
(* its loop goes.  The host's call is the iteration taken from pc =        *)
(* "idle"; an iteration that returns goes back to "idle", one that ends in *)
(* the next iteration of the loop leaves pc = "next", and nothing else can *)
(* run until the call returns.                                             *)
(***************************************************************************)
InNext == pc \in {"idle", "next"}

\* the step the iteration dispatches on, when it gets that far
CurrentStep == get_current_step(nodes, conversation)

Dispatching ==
    /\ InNext
    /\ conversation.some
    /\ ~conversion_ended
    /\ CurrentStep.tag = "Some"

Return(entry) ==
    /\ ret' = entry
    /\ pc' = "idle"
    /\ op' = "next"

Continue ==
    /\ pc' = "next"
    /\ op' = "next"
    /\ UNCHANGED ret

Panic ==
    /\ ret' = PanicRet
    /\ pc' = "panic"
    /\ op' = "next"

\* if self.state.conversation.is_none() { return None; }
NextNoConversation ==
    /\ InNext
    /\ ~conversation.some
    /\ Return(NoneRet)
    /\ UNCHANGED <<nodes, conversation, variables, functions, conversion_ended>>
    /\ UNCHANGED tokenizer

\* a pull on an ended conversation that reports the end again
NextEnded_ReEmits ==
    /\ InNext
    /\ conversation.some
    /\ conversion_ended
    /\ Return(EndConversation)
    /\ UNCHANGED <<nodes, conversation, variables, functions, conversion_ended>>
    /\ UNCHANGED tokenizer

\* if self.conversion_ended { return None; }
NextEnded ==
    /\ InNext
    /\ conversation.some
    /\ conversion_ended
    /\ Return(NoneRet)
    /\ UNCHANGED <<nodes, conversation, variables, functions, conversion_ended>>
    /\ UNCHANGED tokenizer

\* get_current_step panics: the node is missing, or the scope stack does
\* not fit the node's steps
NextStepPanic ==
    /\ InNext
    /\ conversation.some
    /\ ~conversion_ended
    /\ CurrentStep.tag = "Panic"
    /\ Panic
    /\ UNCHANGED <<nodes, conversation, variables, functions, conversion_ended>>
    /\ UNCHANGED tokenizer

\* a loop that pops an exhausted scope and goes on in the enclosing sequence
NextEndConversation_Pops ==
    /\ InNext
    /\ conversation.some
    /\ ~conversion_ended
    /\ CurrentStep.tag = "None"
    /\ IF conversation.indexes # <<>>
       THEN /\ conversation' =
                   advance([conversation EXCEPT !.indexes =
                               SubSeq(@, 1, Len(conversation.indexes) - 1)])
            /\ Continue
            /\ UNCHANGED conversion_ended
       ELSE /\ conversion_ended' = TRUE
            /\ Return(EndConversation)
            /\ UNCHANGED conversation
    /\ UNCHANGED <<nodes, variables, functions>>
    /\ UNCHANGED tokenizer

\* if step.is_none() { ...; return Some(YarnEntry::EndConversation); }
NextEndConversation ==
    /\ InNext
    /\ conversation.some
    /\ ~conversion_ended
    /\ CurrentStep.tag = "None"
    /\ conversion_ended' = TRUE
    /\ Return(EndConversation)
    /\ UNCHANGED <<nodes, conversation, variables, functions>>
    /\ UNCHANGED tokenizer

\* Step::Dialogue with no choices
NextSay ==
    /\ Dispatching
    /\ CurrentStep.step.kind = "Dialogue"
    /\ CurrentStep.step.choices = <<>>
    /\ conversation' = advance(conversation)
    /\ Return(Say(CurrentStep.step.text))
    /\ UNCHANGED <<nodes, variables, functions, conversion_ended>>
    /\ UNCHANGED tokenizer

\* a Dialogue with choices that advances like a plain line
NextChoose_Advances ==
    /\ Dispatching
    /\ CurrentStep.step.kind = "Dialogue"
    /\ CurrentStep.step.choices # <<>>
    /\ conversation' = advance(conversation)
    /\ Return(Choose(CurrentStep.step.text, ChoiceTexts(CurrentStep.step.choices)))
    /\ UNCHANGED <<nodes, variables, functions, conversion_ended>>
    /\ UNCHANGED tokenizer

\* Step::Dialogue with choices
NextChoose ==
    /\ Dispatching
    /\ CurrentStep.step.kind = "Dialogue"
    /\ CurrentStep.step.choices # <<>>
    /\ Return(Choose(CurrentStep.step.text, ChoiceTexts(CurrentStep.step.choices)))
    /\ UNCHANGED <<nodes, conversation, variables, functions, conversion_ended>>
    /\ UNCHANGED tokenizer

\* a Command step that is emitted without advancing past it
NextCommand_Stays ==
    /\ Dispatching
    /\ CurrentStep.step.kind = "Command"
    /\ Return(CommandEntry(CurrentStep.step.text))
    /\ UNCHANGED <<nodes, conversation, variables, functions, conversion_ended>>
    /\ UNCHANGED tokenizer

\* Step::Command
NextCommand ==
    /\ Dispatching
    /\ CurrentStep.step.kind = "Command"
    /\ conversation' = advance(conversation)
    /\ Return(CommandEntry(CurrentStep.step.text))
    /\ UNCHANGED <<nodes, variables, functions, conversion_ended>>
    /\ UNCHANGED tokenizer

\* an Assign step that is reported to the host as a Command event
NextAssign_Emits ==
    /\ Dispatching
    /\ CurrentStep.step.kind = "Assign"
    /\ LET value == evaluate(CurrentStep.step.expr, variables, functions, nodes)
       IN  IF value.ok
           THEN /\ variables' = Insert(variables, CurrentStep.step.name, value.v)
                /\ conversation' = advance(conversation)
                /\ Return(CommandEntry(CurrentStep.step.name))
           ELSE /\ Panic
                /\ UNCHANGED <<variables, conversation>>
    /\ UNCHANGED <<nodes, functions, conversion_ended>>
    /\ UNCHANGED tokenizer

\* Step::Assign
NextAssign ==
    /\ Dispatching
    /\ CurrentStep.step.kind = "Assign"
    /\ LET value == evaluate(CurrentStep.step.expr, variables, functions, nodes)
       IN  IF value.ok
           THEN /\ variables' = Insert(variables, CurrentStep.step.name, value.v)
                /\ conversation' = advance(conversation)
                /\ Continue
           ELSE /\ Panic
                /\ UNCHANGED <<variables, conversation>>
    /\ UNCHANGED <<nodes, functions, conversion_ended>>
    /\ UNCHANGED tokenizer

\* a Jump that moves past the target's first step
NextJump_Advances ==
    /\ Dispatching
    /\ CurrentStep.step.kind = "Jump"
    /\ conversation' = advance(set_conversation(CurrentStep.step.node))
    /\ Continue
    /\ UNCHANGED <<nodes, variables, functions, conversion_ended>>
    /\ UNCHANGED tokenizer

\* Step::Jump
NextJump ==
    /\ Dispatching
    /\ CurrentStep.step.kind = "Jump"
    /\ conversation' = set_conversation(CurrentStep.step.node)
    /\ Continue
    /\ UNCHANGED <<nodes, variables, functions, conversion_ended>>
    /\ UNCHANGED tokenizer

\* an else-if loop that takes a condition whose evaluation fails as falsy
RECURSIVE SelectElseIf_ErrIsFalsy(_, _)
SelectElseIf_ErrIsFalsy(else_ifs, i) ==
    IF i >= Len(else_ifs) THEN SIElse(0)
    ELSE LET value == evaluate(else_ifs[i + 1].expr, variables, functions, nodes)
         IN  IF value.ok /\ as_bool(value.v) THEN SIElseIf(i, 0)
             ELSE SelectElseIf_ErrIsFalsy(else_ifs, i + 1)

\* an else-if loop without the break: the last truthy condition wins
RECURSIVE SelectElseIf_NoBreak(_, _)
SelectElseIf_NoBreak(else_ifs, i) ==
    IF i >= Len(else_ifs) THEN SIElse(0)
    ELSE LET value == evaluate(else_ifs[i + 1].expr, variables, functions, nodes)
             later == SelectElseIf_NoBreak(else_ifs, i + 1)
         IN  IF ~value.ok THEN Panicked
             ELSE IF later = Panicked THEN Panicked
             ELSE IF later.kind = "ElseIf" THEN later
             ELSE IF as_bool(value.v) THEN SIElseIf(i, 0)
             ELSE later

\* The outcome of the else-if loop from position i (0-based) on: "Panic"
\* when a condition evaluated fails, else the StepIndex to push.
RECURSIVE SelectElseIf(_, _)
SelectElseIf(else_ifs, i) ==
    IF i >= Len(else_ifs) THEN SIElse(0)
    ELSE LET value == evaluate(else_ifs[i + 1].expr, variables, functions, nodes)
         IN  IF ~value.ok THEN Panicked
             ELSE IF as_bool(value.v) THEN SIElseIf(i, 0)
             ELSE SelectElseIf(else_ifs, i + 1)

\* a Conditional that evaluates every else-if condition before it selects
SelectBranch_EvaluatesAll(step) ==
    LET value == evaluate(step.expr, variables, functions, nodes)
    IN  IF ~value.ok THEN Panicked
        ELSE IF \E i \in 1..Len(step.else_ifs) :
                   ~evaluate(step.else_ifs[i].expr, variables, functions, nodes).ok
        THEN Panicked
        ELSE IF as_bool(value.v) THEN SIIf(0)
        ELSE SelectElseIf(step.else_ifs, 0)

\* the StepIndex a Conditional step pushes, or Panicked
SelectBranch(step) ==
    LET value == evaluate(step.expr, variables, functions, nodes)
    IN  IF ~value.ok THEN Panicked
        ELSE IF as_bool(value.v) THEN SIIf(0)
        ELSE SelectElseIf(step.else_ifs, 0)

\* Step::Conditional
NextConditional ==
    /\ Dispatching
    /\ CurrentStep.step.kind = "Conditional"
    /\ LET index == SelectBranch(CurrentStep.step)
       IN  IF index = Panicked
           THEN /\ Panic
                /\ UNCHANGED conversation
           ELSE /\ conversation' = push_step(conversation, index)
                /\ Continue
    /\ UNCHANGED <<nodes, variables, functions, conversion_ended>>
    /\ UNCHANGED tokenizer

Next ==
    \/ \E s \in Scripts : load_from_string(s)
    \/ \E name \in FunctionNames, num_args \in 0..MaxArgs, callback \in HostCallbacks :
           register_function(name, num_args, callback)
    \/ \E name \in VariableNames, value \in HostValues : set_variable(name, value)
    \/ \E node \in NodeNames : activate(node)
    \/ \E choice \in 0..MaxChoice : choose(choice)
    \/ NextNoConversation
    \/ NextEnded
    \/ NextStepPanic
    \/ NextEndConversation
    \/ NextSay
    \/ NextChoose
    \/ NextCommand
    \/ NextAssign
    \/ NextJump
    \/ NextConditional

Spec == Init /\ [][Next]_vars

(***************************************************************************)
(* Properties.                                                             *)
(***************************************************************************)
\* the conversation resolves to a Dialogue step with a non-empty choice list
AtChoicePoint ==
    /\ conversation.some
    /\ CurrentStep.tag = "Some"
    /\ CurrentStep.step.kind = "Dialogue"
    /\ CurrentStep.step.choices # <<>>

\* a call of next() made by the host in this step (its first loop iteration)
NextCalled == pc = "idle" /\ op' = "next"

\* C1: at a Dialogue step with choices (conversation not ended), a pull
\* returns the Choose event of that step and changes neither the registry,
\* the conversation position and scope stack, the variables nor the ended
\* flag; so a pull that follows a pull that returned Choose returns the
\* same event, any number of times.
C1_ChooseIdempotent ==
    [][ /\ (InNext /\ ~conversion_ended /\ AtChoicePoint /\ op' = "next")
            => /\ ret' = Choose(CurrentStep.step.text,
                                ChoiceTexts(CurrentStep.step.choices))
               /\ pc' = "idle"
               /\ UNCHANGED <<nodes, conversation, variables, conversion_ended>>
        /\ (NextCalled /\ op = "next" /\ ret.kind = "Choose")
            => /\ ret' = ret
               /\ UNCHANGED <<nodes, conversation, variables, conversion_ended>>
      ]_vars

\* a pull has returned the Choose event of a nested choice point and the
\* engine still waits at it
C1_Witness ==
    /\ pc = "idle"
    /\ op = "next"
    /\ ret.kind = "Choose"
    /\ ret.text = "Sure?"
    /\ ret.choices = <<"yes", "no">>
    /\ AtChoicePoint
    /\ conversation.indexes = <<SIDialogue(2, 1)>>

\* C2: when the scope stack is non-empty and the nested sequence is
\* exhausted, the pull emits EndConversation; and no step ever pops a scope
\* or moves a position of an enclosing sequence: while the stack is
\* non-empty, a step either replaces the conversation by a fresh one or
\* keeps the node, the base index and every entry below the top, and only
\* moves the top entry's inner index forward or pushes an entry.
C2_ExhaustedScopeEnds ==
    [][ /\ ( /\ InNext
             /\ conversation.some
             /\ ~conversion_ended
             /\ conversation.indexes # <<>>
             /\ CurrentStep.tag = "None"
             /\ op' = "next" )
            => /\ ret' = EndConversation
               /\ pc' = "idle"
               /\ conversion_ended'
               /\ conversation' = conversation
        /\ (conversation.some /\ conversation.indexes # <<>>)
            => \/ conversation' = NewConversation(conversation'.node)
               \/ LET old == conversation.indexes
                      new == conversation'.indexes
                      n == Len(old)
                  IN  /\ conversation'.node = conversation.node
                      /\ conversation'.base_index = conversation.base_index
                      /\ Len(new) >= n
                      /\ SubSeq(new, 1, n - 1) = SubSeq(old, 1, n - 1)
                      /\ new[n].kind = old[n].kind
                      /\ new[n].idx >= old[n].idx
                      /\ Len(new) > n => new[n] = old[n]
      ]_vars

\* the body of the inline choice "yes" is exhausted, the pull has emitted
\* EndConversation, and both enclosing sequences have steps left that were
\* not executed
C2_Witness ==
    /\ pc = "idle"
    /\ op = "next"
    /\ ret = EndConversation
    /\ conversation.some
    /\ conversation.node = "Start"
    /\ nodes["Start"] = StartNode
    /\ conversation.base_index = 0
    /\ conversation.indexes = <<SIDialogue(2, 1), SIDialogue(0, 1)>>
    /\ Len(StartNode.steps) > 1
    /\ Len(StartNode.steps[1].choices[3].steps) > 2

\* C3: a pull on an ended conversation, or with no conversation, returns
\* nothing and changes no state; EndConversation is only returned by a pull
\* that finds the flag clear and sets it; and only activate clears the flag.
C3_NothingAfterEnd ==
    [][ /\ (InNext /\ conversation.some /\ conversion_ended /\ op' = "next")
            => /\ ret' = NoneRet
               /\ pc' = "idle"
               /\ UNCHANGED <<nodes, conversation, variables, functions,
                              conversion_ended>>
        /\ (InNext /\ ~conversation.some /\ op' = "next")
            => /\ ret' = NoneRet
               /\ pc' = "idle"
               /\ UNCHANGED <<nodes, conversation, variables, functions,
                              conversion_ended>>
        /\ (op' = "next" /\ pc' = "idle" /\ ret'.kind = "EndConversation")
            => ~conversion_ended /\ conversion_ended'
        /\ (op' = "next" /\ pc' = "idle" /\ conversion_ended)
            => ret'.kind \notin {"Say", "Choose", "Command", "EndConversation"}
        /\ (conversion_ended /\ ~conversion_ended') => op' = "activate"
      ]_vars

\* a pull after the end of the conversation has returned nothing
C3_Witness ==
    /\ pc = "idle"
    /\ op = "next"
    /\ ret = NoneRet
    /\ conversation.some
    /\ conversion_ended

\* the cases in which choose(choice) performs no valid choice
InvalidChoice(choice) ==
    \/ ~conversation.some
    \/ CurrentStep.tag # "Some"
    \/ ~AtChoicePoint
    \/ choice >= Len(CurrentStep.step.choices)

\* C4: choose(i) returns an error value when no conversation is active,
\* when there is no current step, when the current step is not a Dialogue
\* with choices, and when i is out of range.
C4_ChooseReturnsError ==
    [][ \A choice \in 0..MaxChoice :
            (choose(choice) /\ InvalidChoice(choice)) => ret' = ErrRet
      ]_vars

\* C5: a choose that performs no valid choice leaves the registry, the
\* conversation, the variables and the ended flag as they were, and the
\* engine can be pulled afterwards.
C5_InvalidChooseKeepsState ==
    [][ \A choice \in 0..MaxChoice :
            (choose(choice) /\ InvalidChoice(choice))
                => /\ UNCHANGED <<nodes, conversation, variables, conversion_ended>>
                   /\ pc' = "idle"
      ]_vars

\* C6: choosing an External choice replaces the conversation by a fresh one
\* at the target (empty scope stack, base index 0), whatever the nesting
\* depth, and the conversation then resolves to the target's step 0.
C6_ExternalChoiceFresh ==
    [][ \A choice \in 0..MaxChoice :
            (choose(choice) /\ ~InvalidChoice(choice)
                /\ CurrentStep.step.choices[choice + 1].kind = "External")
                => LET target == CurrentStep.step.choices[choice + 1].node
                   IN  /\ conversation'.some
                       /\ conversation'.node = target
                       /\ conversation'.base_index = 0
                       /\ conversation'.indexes = <<>>
                       /\ ret' = OkRet
                       /\ (target \in DOMAIN nodes /\ nodes[target].steps # <<>>)
                           => get_current_step(nodes', conversation')
                                  = SomeStep(nodes[target].steps[1])
      ]_vars

\* the External choice "no" of the nested Dialogue "Sure?" was chosen: the
\* conversation is a fresh one at A
C6_Witness ==
    /\ op = "choose"
    /\ ret = OkRet
    /\ "A" \in DOMAIN nodes
    /\ conversation = [some |-> TRUE, node |-> "A", base_index |-> 0,
                       indexes |-> <<>>]

\* C7: choosing the Inline choice c pushes exactly Dialogue(c, 0), keeps the
\* node, the base index and the entries below, and the conversation then
\* resolves to position 0 of the choice's nested steps.
C7_InlineChoicePushes ==
    [][ \A choice \in 0..MaxChoice :
            (choose(choice) /\ ~InvalidChoice(choice)
                /\ CurrentStep.step.choices[choice + 1].kind = "Inline")
                => LET nested == CurrentStep.step.choices[choice + 1].steps
                   IN  /\ conversation'.node = conversation.node
                       /\ conversation'.base_index = conversation.base_index
                       /\ conversation'.indexes =
                              conversation.indexes \o <<SIDialogue(choice, 0)>>
                       /\ ret' = OkRet
                       /\ get_current_step(nodes', conversation') =
                              IF nested = <<>> THEN NoStep ELSE SomeStep(nested[1])
      ]_vars

\* the Inline choice "yes" was chosen inside the Inline choice "stay": a
\* second entry sits on top of the first
C7_Witness ==
    /\ op = "choose"
    /\ ret = OkRet
    /\ conversation.some
    /\ conversation.base_index = 0
    /\ conversation.indexes = <<SIDialogue(2, 1), SIDialogue(0, 0)>>
    /\ CurrentStep = SomeStep(Dialogue("ok", <<>>))

\* C8: activate(n) leaves the engine with node n, base index 0, an empty
\* scope stack and the ended flag cleared, and keeps the variables.
C8_ActivateResets ==
    [][ \A node \in NodeNames :
            activate(node)
                => /\ conversation' = [some |-> TRUE, node |-> node,
                                       base_index |-> 0, indexes |-> <<>>]
                   /\ ~conversion_ended'
                   /\ variables' = variables
                   /\ pc' = "idle"
      ]_vars

\* activate was called after a conversation that ran End1's assignment: the
\* variable it wrote and the one the host set are still there
C8_Witness ==
    /\ op = "activate"
    /\ conversation = NewConversation("Start")
    /\ ~conversion_ended
    /\ DOMAIN variables = {"x", "y"}
    /\ variables["x"] = NumberV(F32(1))

\* the value visited(name) evaluates to with the built-in function
Visited(name, state) ==
    evaluate(Function("visited", << Term(StringV(name)) >>),
             variables, [n \in {"visited"} |-> [num_args |-> 1, callback |-> "visited"]],
             state)

\* C9: visited(A) is true once activate(A) was called for a node A of the
\* registry, and it is false before: it only becomes true in a step that
\* makes A the conversation target.
C9_VisitedAfterActivate ==
    [][ /\ \A node \in NodeNames :
              (activate(node) /\ node \in DOMAIN nodes)
                  => Visited(node, nodes') = Ok(BooleanV(TRUE))
        /\ \A node \in DOMAIN nodes \cap DOMAIN nodes' :
              ( /\ Visited(node, nodes) = Ok(BooleanV(FALSE))
                /\ Visited(node, nodes') = Ok(BooleanV(TRUE)) )
                  => /\ conversation'.some
                     /\ conversation'.node = node
                     /\ conversation' # conversation
      ]_vars

\* C10: after activate(n) for a node n that is not in the registry, the
\* first pull returns EndConversation.
C10_MissingNodeEnds ==
    [][ ( /\ NextCalled
          /\ op = "activate"
          /\ conversation.node \notin DOMAIN nodes )
            => /\ ret' = EndConversation
               /\ pc' = "idle"
      ]_vars

\* the expression evaluates, in the current state, to a truthy value
Truthy(expr) ==
    LET value == evaluate(expr, variables, functions, nodes)
    IN  value.ok /\ as_bool(value.v)

\* the scope entry of the branch a Conditional step selects: the if-branch
\* when the primary condition is truthy, else the branch of the smallest
\* else-if whose condition is truthy, else the else-branch
SelectedBranch(step) ==
    LET truthy == {i \in 0..(Len(step.else_ifs) - 1) : Truthy(step.else_ifs[i + 1].expr)}
    IN  IF Truthy(step.expr) THEN SIIf(0)
        ELSE IF truthy # {}
        THEN SIElseIf(CHOOSE i \in truthy : \A j \in truthy : i <= j, 0)
        ELSE SIElse(0)

\* the steps of the branch a scope entry of a Conditional step stands for
BranchSteps(step, index) ==
    CASE index.kind = "If" -> step.if_steps
      [] index.kind = "ElseIf" -> step.else_ifs[index.sel + 1].steps
      [] index.kind = "Else" -> step.else_steps

\* C11: a Conditional step that is executed (no evaluation failing) pushes
\* exactly one scope entry, that of the selected branch (If(0), else
\* ElseIf(i, 0) for the smallest truthy i, else Else(0)), returns no event,
\* and the conversation then resolves to position 0 of that branch.
C11_ConditionalSelectsOneBranch ==
    [][ ( /\ Dispatching
          /\ CurrentStep.step.kind = "Conditional"
          /\ op' = "next"
          /\ pc' # "panic" )
            => LET step == CurrentStep.step
                   index == SelectedBranch(step)
                   branch == BranchSteps(step, index)
               IN  /\ conversation' =
                          [conversation EXCEPT !.indexes = Append(@, index)]
                   /\ pc' = "next"
                   /\ ret' = ret
                   /\ get_current_step(nodes', conversation') =
                          IF branch = <<>> THEN NoStep ELSE SomeStep(branch[1])
      ]_vars

\* End1's conditional was executed with a falsy primary condition and both
\* else-if conditions truthy: the first else-if branch was entered
C11_Witness ==
    /\ pc = "next"
    /\ conversation.some
    /\ conversation.node = "End1"
    /\ conversation.base_index = 1
    /\ conversation.indexes = <<SIElseIf(0, 0)>>
    /\ ~Truthy(End1Node.steps[2].expr)
    /\ Truthy(End1Node.steps[2].else_ifs[1].expr)
    /\ Truthy(End1Node.steps[2].else_ifs[2].expr)

\* the steps are only Command steps and Dialogue steps without choices
Linear(steps) ==
    \A i \in 1..Len(steps) :
        \/ steps[i].kind = "Command"
        \/ steps[i].kind = "Dialogue" /\ steps[i].choices = <<>>

\* the event a plain Dialogue or Command step is emitted as
EventOf(step) ==
    IF step.kind = "Dialogue" THEN Say(step.text) ELSE CommandEntry(step.text)

\* a pull starts at the top level of a loaded node of only plain steps
AtLinearNode ==
    /\ pc = "idle"
    /\ conversation.some
    /\ conversation.node \in DOMAIN nodes
    /\ Linear(nodes[conversation.node].steps)
    /\ conversation.indexes = <<>>

\* C12: in a node of only plain Dialogue and Command steps, the pull at
\* top-level position k returns the event of step k and moves to position
\* k + 1 (so the pulls yield one event per step, in step order, each once);
\* the pull after the last step returns EndConversation and ends the
\* conversation, and every pull after that returns nothing.
C12_LinearNodeInOrder ==
    [][ (AtLinearNode /\ op' = "next")
            => LET steps == nodes[conversation.node].steps
                   k == conversation.base_index
               IN  IF conversion_ended
                   THEN ret' = NoneRet /\ pc' = "idle" /\ conversion_ended'
                   ELSE IF k < Len(steps)
                   THEN /\ ret' = EventOf(steps[k + 1])
                        /\ pc' = "idle"
                        /\ conversation' = [conversation EXCEPT !.base_index = k + 1]
                        /\ ~conversion_ended'
                   ELSE /\ ret' = EndConversation
                        /\ pc' = "idle"
                        /\ conversion_ended'
      ]_vars

\* Ghost's three plain steps were pulled one by one and the pull after
\* them returned EndConversation
C12_Witness ==
    /\ op = "next"
    /\ ret = EndConversation
    /\ conversion_ended
    /\ conversation = [NewConversation("Ghost") EXCEPT !.base_index = 3]
    /\ AtLinearNode

\* C13: the Choose event of a Dialogue step lists the texts of all its
\* choices in declared order, and choose(i) called on that event selects the
\* choice whose text is at position i of the event: an External one makes
\* the conversation a fresh one at its target (resolving the target's first
\* step), an Inline one makes it resolve the first of its nested steps.
C13_ChooseListsInOrder ==
    [][ /\ (Dispatching /\ AtChoicePoint /\ op' = "next")
            => LET step == CurrentStep.step
               IN  /\ ret'.kind = "Choose"
                   /\ ret'.text = step.text
                   /\ Len(ret'.choices) = Len(step.choices)
                   /\ \A i \in 1..Len(step.choices) :
                          ret'.choices[i] = step.choices[i].text
        /\ \A i \in 0..MaxChoice :
            (op = "next" /\ ret.kind = "Choose" /\ i < Len(ret.choices) /\ choose(i))
                => \E j \in 1..Len(CurrentStep.step.choices) :
                    LET selected == CurrentStep.step.choices[j]
                    IN  /\ j = i + 1
                        /\ selected.text = ret.choices[i + 1]
                        /\ selected.kind = "External"
                            => /\ conversation' = NewConversation(selected.node)
                               /\ (selected.node \in DOMAIN nodes
                                      /\ nodes[selected.node].steps # <<>>)
                                   => get_current_step(nodes', conversation') =
                                          SomeStep(nodes[selected.node].steps[1])
                        /\ selected.kind = "Inline"
                            => get_current_step(nodes', conversation') =
                                   IF selected.steps = <<>> THEN NoStep
                                   ELSE SomeStep(selected.steps[1])
      ]_vars

\* after Start's Choose event, choose(1) was called: the conversation is a
\* fresh one at End2 and resolves End2's first step
C13_Witness ==
    /\ op = "choose"
    /\ ret = OkRet
    /\ conversation = NewConversation("End2")
    /\ "End2" \in DOMAIN nodes
    /\ CurrentStep = SomeStep(End2Node.steps[1])

\* C14: a Jump(name) step, at any nesting depth, replaces the conversation
\* by a fresh one at name (base index 0, empty scope stack) and the pull
\* goes on without returning an event; the pull then continues with name's
\* top-level step 0, so when that step is a plain Dialogue or Command the
\* event the pull returns is that step's.
C14_JumpFreshConversation ==
    [][ /\ (Dispatching /\ CurrentStep.step.kind = "Jump" /\ op' = "next")
            => /\ conversation' = NewConversation(CurrentStep.step.node)
               /\ pc' = "next"
               /\ ret' = ret
               /\ (CurrentStep.step.node \in DOMAIN nodes
                      /\ nodes[CurrentStep.step.node].steps # <<>>)
                   => get_current_step(nodes', conversation') =
                          SomeStep(nodes[CurrentStep.step.node].steps[1])
        /\ ( /\ pc = "next"
             /\ conversation.some
             /\ conversation = NewConversation(conversation.node)
             /\ conversation.node \in DOMAIN nodes
             /\ nodes[conversation.node].steps # <<>>
             /\ Linear(SubSeq(nodes[conversation.node].steps, 1, 1))
             /\ ~conversion_ended )
            => /\ ret' = EventOf(nodes[conversation.node].steps[1])
               /\ pc' = "idle"
      ]_vars

\* the Jump nested in End1's second else-if branch was executed: the pull
\* is still running and the conversation is a fresh one at End2
C14_Witness ==
    /\ pc = "next"
    /\ op = "next"
    /\ conversation = NewConversation("End2")
    /\ "End2" \in DOMAIN nodes
    /\ "x" \in DOMAIN variables

\* the kinds of the values a pull returns
EventKinds == {"Say", "Choose", "Command", "EndConversation"}

\* the kinds of the steps that produce no event
SilentKinds == {"Assign", "Jump", "Conditional"}

\* C15: a pull that returns a value returns exactly one Say, Choose, Command
\* or EndConversation (a Dialogue step gives Say or Choose, a Command step
\* gives Command); an Assign, Jump or Conditional step returns nothing to
\* the host: the pull goes on to the next step within the same call (or
\* fails), so one pull runs through any number of consecutive silent steps.
C15_OneEventPerPull ==
    [][ /\ (op' = "next" /\ pc' = "idle")
            => ret'.kind \in EventKinds \cup {"None"}
        /\ (Dispatching /\ op' = "next" /\ CurrentStep.tag = "Some")
            => LET step == CurrentStep.step
               IN  /\ step.kind \in SilentKinds
                       => /\ pc' \in {"next", "panic"}
                          /\ pc' = "next" => ret' = ret
                   /\ step.kind = "Dialogue"
                       => pc' = "idle" /\ ret'.kind \in {"Say", "Choose"}
                   /\ step.kind = "Command"
                       => pc' = "idle" /\ ret'.kind = "Command"
        /\ (pc = "next" /\ pc' = "idle") => ret'.kind \in EventKinds
      ]_vars

\* one pull at End1 executed the Assign and then the Conditional, two silent
\* steps in a row, and has not returned yet
C15_Witness ==
    /\ pc = "next"
    /\ op = "next"
    /\ conversation.some
    /\ conversation.node = "End1"
    /\ conversation.base_index = 1
    /\ Len(conversation.indexes) = 1
    /\ "x" \in DOMAIN variables

\* the position of the innermost scope of a conversation: the top entry of
\* the scope stack, or the base index when the stack is empty
InnermostPosition(conv) ==
    IF conv.indexes = <<>> THEN conv.base_index
    ELSE conv.indexes[Len(conv.indexes)].idx

\* C16: the value observed for a variable is that of the most recent write:
\* after set_variable(name, value), and after an Assign step to name whose
\* expression evaluated (in the store as it was just before the step) to
\* value, reading name yields value and every other variable is as before;
\* the Assign step also advances the innermost position by one and changes
\* nothing else of the conversation.
C16_LastWriteWins ==
    [][ /\ \A name \in VariableNames : \A value \in HostValues :
            set_variable(name, value)
                => /\ evaluate(Variable(name), variables', functions', nodes') = Ok(value)
                   /\ \A other \in DOMAIN variables \ {name} :
                          /\ other \in DOMAIN variables'
                          /\ variables'[other] = variables[other]
        /\ ( /\ Dispatching
             /\ CurrentStep.tag = "Some"
             /\ CurrentStep.step.kind = "Assign"
             /\ op' = "next"
             /\ pc' # "panic" )
            => LET step == CurrentStep.step
                   value == evaluate(step.expr, variables, functions, nodes)
               IN  /\ value.ok
                   /\ evaluate(Variable(step.name), variables', functions', nodes') = value
                   /\ \A other \in DOMAIN variables \ {step.name} :
                          /\ other \in DOMAIN variables'
                          /\ variables'[other] = variables[other]
                   /\ DOMAIN variables' = DOMAIN variables \cup {step.name}
                   /\ InnermostPosition(conversation') = InnermostPosition(conversation) + 1
                   /\ conversation'.node = conversation.node
                   /\ Len(conversation'.indexes) = Len(conversation.indexes)
                   /\ \A i \in 1..(Len(conversation.indexes) - 1) :
                          conversation'.indexes[i] = conversation.indexes[i]
      ]_vars

\* the Assign nested in End1's if-branch was executed after the host had set
\* y to 1 and End1's first Assign had set x to 1: x now reads 1 + 1, and the
\* position inside the branch has moved from 0 to 1
C16_Witness ==
    /\ op = "next"
    /\ conversation.some
    /\ conversation.node = "End1"
    /\ conversation.indexes = <<SIIf(1)>>
    /\ evaluate(Variable("x"), variables, functions, nodes) = Ok(NumberV(F32(2)))
    /\ evaluate(Variable("y"), variables, functions, nodes) = Ok(NumberV(F32(1)))

\* this step of the pull loop executes an Assign step
ExecutesAssign ==
    /\ op' = "next"
    /\ Dispatching
    /\ CurrentStep.tag = "Some"
    /\ CurrentStep.step.kind = "Assign"

\* C17: the variable store is changed only by an executed Assign step and by
\* set_variable: activate, choose, load_from_string, register_function and
\* every other iteration of a pull (Dialogue, Command, Jump and Conditional
\* steps, the end of the conversation) leave it exactly as it was.
C17_OnlyWritesChangeVariables ==
    [][ /\ variables' # variables => (op' = "set_variable" \/ ExecutesAssign)
        /\ op' \in {"activate", "choose", "load", "register_function"}
            => variables' = variables
        /\ (op' = "next" /\ ~ExecutesAssign) => variables' = variables
      ]_vars

\* a store written by End1's Assign (x) and by End2's Assign (y, to true)
\* is still the same after a later load
C17_Witness ==
    /\ op = "load"
    /\ DOMAIN variables = {"x", "y"}
    /\ variables["y"] = BooleanV(TRUE)
    /\ variables["x"] = NumberV(F32(1))

\* some node of the script fails to parse
FailsToParse(s) ==
    \E i \in 1..Len(ScriptText(s)) : parse_node_text(ScriptText(s)[i]) = Err

\* C18: a load of a script that fails to parse returns an error and leaves
\* the registry exactly as it was (no node of the script is inserted, not
\* even one that precedes the malformed part), and leaves the conversation,
\* the variables, the functions and the ended flag unchanged; a load of a
\* valid script, also one that follows a failed load, returns Ok and
\* registers each of its nodes under its title.
C18_FailedLoadChangesNothing ==
    [][ \A s \in Scripts :
            load_from_string(s)
                => IF FailsToParse(s)
                   THEN /\ ret' = ErrRet
                        /\ nodes' = nodes
                        /\ conversation' = conversation
                        /\ variables' = variables
                        /\ functions' = functions
                        /\ conversion_ended' = conversion_ended
                        /\ pc' = "idle"
                   ELSE /\ ret' = OkRet
                        /\ \A i \in 1..Len(ScriptText(s)) :
                               LET node == ScriptText(s)[i].node
                               IN  /\ node.title \in DOMAIN nodes'
                                   /\ nodes'[node.title] = node
      ]_vars

\* the script whose second node is malformed was loaded into an engine that
\* holds the nodes of an earlier load: the call returned an error and the
\* well-formed node Pre that precedes the malformed part is not registered
C18_Witness ==
    /\ op = "load"
    /\ ret = ErrRet
    /\ "Start" \in DOMAIN nodes
    /\ "Pre" \notin DOMAIN nodes
    /\ conversation.some

\* the expression refers, somewhere inside it, to a variable that is not
\* assigned, to a function that is not registered, or calls a function with
\* a number of arguments other than the registered one
RECURSIVE HasBadReference(_, _, _)
HasBadReference(expr, vs, fs) ==
    CASE expr.kind = "Term" -> FALSE
      [] expr.kind = "Variable" -> expr.name \notin DOMAIN vs
      [] expr.kind = "Function" ->
            \/ expr.name \notin DOMAIN fs
            \/ expr.name \in DOMAIN fs /\ fs[expr.name].num_args # Len(expr.args)
            \/ \E i \in 1..Len(expr.args) : HasBadReference(expr.args[i], vs, fs)
      [] expr.kind \in {"Unary", "Parentheses"} -> HasBadReference(expr.expr, vs, fs)
      [] expr.kind = "Binary" ->
            \/ HasBadReference(expr.left, vs, fs)
            \/ HasBadReference(expr.right, vs, fs)

\* expressions a script can hold: z is a variable no script or host call
\* assigns, g a function never registered
AtomicExprs ==
    { Term(NumberV(F32(1))), Variable("x"), Variable("y"), Variable("z"),
      Function("f", <<>>), Function("f", <<Term(NumberV(F32(1)))>>),
      Function("g", <<>>),
      Function("visited", <<Term(StringV("A"))>>), Function("visited", <<>>) }

\* each of them as a sub-expression: of an or whose left operand is true, of
\* an and whose left operand is false, of a sum, of an equality, of a
\* negation, of a parenthesis, and as the argument of a call
TestExprs ==
    AtomicExprs
        \cup { Binary("Or", Term(BooleanV(TRUE)), e) : e \in AtomicExprs }
        \cup { Binary("And", Term(BooleanV(FALSE)), e) : e \in AtomicExprs }
        \cup { Binary("Plus", e, Term(NumberV(F32(1)))) : e \in AtomicExprs }
        \cup { Binary("Equals", e, e) : e \in AtomicExprs }
        \cup { Unary("Not", e) : e \in AtomicExprs }
        \cup { Parentheses(e) : e \in AtomicExprs }
        \cup { Function("f", <<e>>) : e \in AtomicExprs }

\* C19: evaluating an expression that calls an unregistered function, calls
\* a function with the wrong number of arguments or reads a variable never
\* assigned yields an error, never a default value, and so does every
\* expression that has such an expression as a sub-expression.
C19_BadReferenceIsError ==
    \A expr \in TestExprs :
        HasBadReference(expr, variables, functions)
            => evaluate(expr, variables, functions, nodes) = Err

\* the pull at End1 evaluated the else-if condition f() while f is
\* registered with one argument, and failed; in that state a read of the
\* unassigned z and a call of the unregistered g are errors too, also under
\* an or whose left operand is true, while y, which is assigned, has a value
C19_Witness ==
    /\ pc = "panic"
    /\ conversation.some
    /\ conversation.node = "End1"
    /\ conversation.base_index = 1
    /\ "f" \in DOMAIN functions
    /\ functions["f"].num_args = 1
    /\ functions["f"].callback = "host_true"
    /\ evaluate(Function("f", <<>>), variables, functions, nodes) = Err
    /\ evaluate(Variable("z"), variables, functions, nodes) = Err
    /\ evaluate(Function("g", <<>>), variables, functions, nodes) = Err
    /\ evaluate(Binary("Or", Term(BooleanV(TRUE)), Variable("z")),
                variables, functions, nodes) = Err
    /\ evaluate(Variable("y"), variables, functions, nodes).ok
    /\ evaluate(Function("f", <<Variable("y")>>), variables, functions, nodes).ok

\* the expression evaluates, in the current state, to a falsy value
Falsy(expr) ==
    LET value == evaluate(expr, variables, functions, nodes)
    IN  value.ok /\ ~as_bool(value.v)

\* the evaluation of the expression fails in the current state
Fails(expr) == evaluate(expr, variables, functions, nodes) = Err

\* a condition that the Conditional step evaluates fails: the primary one,
\* or, the primary one being falsy, an else-if condition that is reached
\* because every else-if condition before it is falsy
ConditionFails(step) ==
    \/ Fails(step.expr)
    \/ /\ Falsy(step.expr)
       /\ \E i \in 1..Len(step.else_ifs) :
              /\ Fails(step.else_ifs[i].expr)
              /\ \A j \in 1..(i - 1) : Falsy(step.else_ifs[j].expr)

\* C20: when the expression of an Assign step, or a condition a Conditional
\* step evaluates, fails during a pull, the pull ends in a fatal engine
\* error (the unwrap panics): no event is returned, no value is stored, no
\* scope is pushed, the position does not advance, and the engine takes no
\* step after it.
C20_EvaluationFailureIsFatal ==
    [][ /\ ( /\ Dispatching
             /\ CurrentStep.tag = "Some"
             /\ op' = "next"
             /\ \/ CurrentStep.step.kind = "Assign" /\ Fails(CurrentStep.step.expr)
                \/ CurrentStep.step.kind = "Conditional" /\ ConditionFails(CurrentStep.step) )
            => /\ pc' = "panic"
               /\ ret' = PanicRet
               /\ variables' = variables
               /\ conversation' = conversation
               /\ conversion_ended' = conversion_ended
               /\ nodes' = nodes
        /\ pc = "panic" => pc' = "panic" /\ ret' = PanicRet
      ]_vars

\* the pull at End1 stored x, found x == y and y falsy and then failed on the
\* else-if condition f(), f not being registered: the engine has panicked
\* with the conversation still at the Conditional step and no scope pushed
C20_Witness ==
    /\ pc = "panic"
    /\ ret = PanicRet
    /\ conversation = [NewConversation("End1") EXCEPT !.base_index = 1]
    /\ "f" \notin DOMAIN functions
    /\ Falsy(Variable("y"))
    /\ ~Fails(Variable("x"))
    /\ ConditionFails(End1Node.steps[2])

(***************************************************************************)
(* The value operations on their own.  The store holds two operands, a and *)
(* b, drawn from TestValues; each step evaluates one binary expression     *)
(* a <o> b in that store and keeps the result.                             *)
(***************************************************************************)
\* the integers the Number operands are taken from
TestNumbers == {-2, -1, 0, 1, 2, 3}

TestStrings == {"", "0", "3", "-1", "true", "abc"}

TestValues ==
    {NumberV(F32(n)) : n \in TestNumbers}
        \cup {StringV(s) : s \in TestStrings}
        \cup {BooleanV(b) : b \in BOOLEAN}

ValueOps == {"Equals", "NotEquals", "Plus", "Minus", "Multiply", "Divide"}

ValueInit ==
    /\ nodes = <<>>
    /\ conversation = NoConversation
    /\ variables \in [{"a", "b"} -> TestValues]
    /\ functions = <<>>
    /\ conversion_ended = FALSE
    /\ pc = "idle"
    /\ ret = UnitRet
    /\ op = "new"
    /\ tokenizer = << >>

\* EngineState::evaluate of the expression $a <o> $b
EvaluateBinary(o) ==
    /\ op' = o
    /\ ret' = evaluate(Binary(o, Variable("a"), Variable("b")),
                       variables, functions, nodes)
    /\ UNCHANGED <<nodes, conversation, variables, functions, conversion_ended, pc>>
    /\ UNCHANGED tokenizer

ValueNext == \E o \in ValueOps : EvaluateBinary(o)

ValueSpec == ValueInit /\ [][ValueNext]_vars

\* the two operands of ValueSpec
OperandA == variables["a"]
OperandB == variables["b"]

\* the equality of two values by the coercion rule: by string
\* representation when either is a String, else by numeric representation
\* when either is a Number, else as Booleans
EqualByCoercion(a, b) ==
    IF a.type = "String" \/ b.type = "String" THEN as_string(a) = as_string(b)
    ELSE IF a.type = "Number" \/ b.type = "Number" THEN FEq(as_num(a), as_num(b))
    ELSE a.b = b.b

\* C21: for every pair of values a, b (numbers from TestNumbers), a == b is
\* the equality by the coercion rule (by string representation if either is
\* a String, else by numeric representation if either is a Number, else of
\* the two Booleans), a != b is its negation, and the result is the same
\* with the operands exchanged.
C21_EqualityByCoercion ==
    /\ op = "Equals"
        => /\ ret = Ok(BooleanV(EqualByCoercion(OperandA, OperandB)))
           /\ ret = Ok(BooleanV(ValueEq(OperandB, OperandA)))
    /\ op = "NotEquals"
        => /\ ret = Ok(BooleanV(~EqualByCoercion(OperandA, OperandB)))
           /\ ret = Ok(BooleanV(~ValueEq(OperandB, OperandA)))

\* String("3") == Number(3) was evaluated and is true
C21_Witness ==
    /\ op = "Equals"
    /\ OperandA = StringV("3")
    /\ OperandB = NumberV(F32(3))
    /\ ret = Ok(BooleanV(TRUE))

\* the numeric representation of a test value as an integer: the Number
\* itself, 0 / 1 for a Boolean, 0 for every String
IntOf(v) ==
    CASE v.type = "Number" -> Signed(v.f)
      [] v.type = "Boolean" -> (IF v.b THEN 1 ELSE 0)
      [] v.type = "String" -> 0

\* the string representation of a test value
TextOf(v) ==
    CASE v.type = "Number" -> NumToString(v.f)
      [] v.type = "Boolean" -> (IF v.b THEN "true" ELSE "false")
      [] v.type = "String" -> v.s

\* the result is the Number that equals the integer n
IsNumber(result, n) ==
    /\ result.ok
    /\ result.v.type = "Number"
    /\ FEq(result.v.f, F32(n))

\* C22: for every pair of values a, b (numbers from TestNumbers): a + b is
\* the String made of both string representations when either operand is a
\* String, else the Number that is the sum of both numeric representations;
\* a - b and a * b are the Number difference and product of the numeric
\* representations; a / b is a Number too: the quotient (the Number that
\* multiplied by b's representation gives a's) when b's representation is
\* not 0, and the f32 quotient by zero (an infinity with a's sign, NaN for
\* 0 / 0) when it is.  A String counts as 0 whatever it holds, a Boolean as
\* 0 / 1.
C22_ArithmeticByCoercion ==
    LET a == OperandA
        b == OperandB
    IN  /\ op = "Plus"
            => IF a.type = "String" \/ b.type = "String"
               THEN ret = Ok(StringV(TextOf(a) \o TextOf(b)))
               ELSE IsNumber(ret, IntOf(a) + IntOf(b))
        /\ op = "Minus" => IsNumber(ret, IntOf(a) - IntOf(b))
        /\ op = "Multiply" => IsNumber(ret, IntOf(a) * IntOf(b))
        /\ op = "Divide"
            => /\ ret.ok
               /\ ret.v.type = "Number"
               /\ IntOf(b) # 0
                   => FEq(FMul(ret.v.f, F32(IntOf(b))), F32(IntOf(a)))
               /\ (IntOf(b) = 0 /\ IntOf(a) # 0)
                   => ret.v.f = Infinity(IntOf(a) < 0)
               /\ (IntOf(b) = 0 /\ IntOf(a) = 0) => IsNaN(ret.v.f)

\* Boolean(true) + Number(1) was evaluated and is Number(2)
C22_Witness ==
    /\ op = "Plus"
    /\ OperandA = BooleanV(TRUE)
    /\ OperandB = NumberV(F32(1))
    /\ ret = Ok(NumberV(F32(2)))

(***************************************************************************)
(* The parser of src/src/lib.rs.  A TokenIterator is modelled by the       *)
(* tokens (or lines) it has still to yield.  A token carries whether a     *)
(* space precedes it in the text: peek() looks at the next character, so   *)
(* it sees a space, not the token, when there is one.                      *)
(***************************************************************************)
Tok(kind, space) == [tok |-> kind, space |-> space]
NumberTok(f, space) == [tok |-> "Number", num |-> f, space |-> space]
WordTok(word, space) == [tok |-> "Word", word |-> word, space |-> space]

\* a parse that succeeded, with the input left over
Parsed(v, rest) == [ok |-> TRUE, v |-> v, rest |-> rest]

\* the first character of a token's text ("0" for a digit, "a" for the
\* first character of a word)
FirstChar(t) ==
    CASE t.tok = "LeftParenthesis" -> "("
      [] t.tok = "RightParenthesis" -> ")"
      [] t.tok = "DollarSign" -> "$"
      [] t.tok = "Equals" -> "="
      [] t.tok = "Plus" -> "+"
      [] t.tok = "Minus" -> "-"
      [] t.tok = "Star" -> "*"
      [] t.tok = "Slash" -> "/"
      [] t.tok = "ExclamationMark" -> "!"
      [] t.tok = "Number" -> "0"
      [] t.tok = "Word" -> "a"

\* TokenIterator::peek: the next character, "None" at the end of the input
peek(tokens) ==
    IF tokens = <<>> THEN "None"
    ELSE IF Head(tokens).space THEN " "
    ELSE FirstChar(Head(tokens))

\* the binary operator at the head of the tokens (parse_expr, the match on
\* tokenizer.next().unwrap())
parse_binary_op(tokens) ==
    LET t == Head(tokens)
        after == Tail(tokens)
        equals == after # <<>> /\ Head(after).tok = "Equals"
    IN  CASE t.tok = "Plus" -> Parsed("Plus", after)
          [] t.tok = "Minus" -> Parsed("Minus", after)
          [] t.tok = "Star" -> Parsed("Multiply", after)
          [] t.tok = "Slash" -> Parsed("Divide", after)
          [] t.tok = "ExclamationMark" ->
                IF equals THEN Parsed("NotEquals", Tail(after)) ELSE Err
          [] t.tok = "Equals" ->
                IF equals THEN Parsed("Equals", Tail(after)) ELSE Err
          [] t.tok = "Word" ->
                CASE t.word = "and" -> Parsed("And", after)
                  [] t.word = "or" -> Parsed("Or", after)
                  [] t.word = "eq" -> Parsed("Equals", after)
                  [] t.word = "neq" -> Parsed("NotEquals", after)
                  [] OTHER -> Err
          [] OTHER -> Err

\* a binary expression that takes the operator met first as the innermost
BinaryExpr_LeftAssociative(o, left, right) ==
    IF right.kind = "Binary"
    THEN Binary(right.op, Binary(o, left, right.left), right.right)
    ELSE Binary(o, left, right)

\* Ok(Expr::Binary(op, Box::new(left), Box::new(right)))
BinaryExpr(o, left, right) == Binary(o, left, right)

\* parse_expr
RECURSIVE parse_expr(_)
parse_expr(tokens) ==
    IF tokens = <<>> THEN Err
    ELSE
    LET t == Head(tokens)
        after == Tail(tokens)
        inner == parse_expr(after)
        left ==
            CASE t.tok = "Number" -> Parsed(Term(NumberV(t.num)), after)
              [] t.tok = "ExclamationMark" ->
                    IF inner.ok THEN Parsed(Unary("Not", inner.v), inner.rest) ELSE Err
              [] t.tok = "Minus" ->
                    IF inner.ok THEN Parsed(Unary("Negate", inner.v), inner.rest) ELSE Err
              [] t.tok = "DollarSign" ->
                    IF after # <<>> /\ Head(after).tok = "Word"
                    THEN Parsed(Variable(Head(after).word), Tail(after))
                    ELSE Err
              [] t.tok = "LeftParenthesis" ->
                    IF inner.ok THEN Parsed(Parentheses(inner.v), inner.rest) ELSE Err
              [] OTHER -> Err
    IN  IF ~left.ok THEN Err
        ELSE IF peek(left.rest) \in {")", "None"} THEN left
        ELSE LET o == parse_binary_op(left.rest)
                 right == parse_expr(o.rest)
             IN  IF ~o.ok THEN Err
                 ELSE IF ~right.ok THEN Err
                 ELSE Parsed(BinaryExpr(o.v, left.v, right.v), right.rest)

(***************************************************************************)
(* parse_expr on its own: the tokenizer starts on the text of one          *)
(* expression (trimmed, as parse_toplevel_line passes it) and one step     *)
(* parses it.                                                              *)
(***************************************************************************)
\* a number or a variable as it is written in an expression
NumberText(n) == [written |-> "Number", n |-> n]
VariableText(name) == [written |-> "Variable", name |-> name]

\* the binary operators as they are written
OperatorSpellings == {"+", "-", "*", "/", "==", "!=", "and", "or", "eq", "neq"}
OperatorText(spelling) == [written |-> "Operator", text |-> spelling]
OperatorTexts == {OperatorText(spelling) : spelling \in OperatorSpellings}

\* words run up to the next space: a space follows a variable name and
\* surrounds an operator written as a word
StartsWithWord(item) ==
    item.written = "Operator" /\ item.text \in {"and", "or", "eq", "neq"}
EndsWithWord(item) == StartsWithWord(item) \/ item.written = "Variable"

\* the tokens the TokenIterator yields for an item, space telling whether a
\* space precedes it
TokensOf(item, space) ==
    CASE item.written = "Number" -> <<NumberTok(F32(item.n), space)>>
      [] item.written = "Variable" ->
            <<Tok("DollarSign", space), WordTok(item.name, FALSE)>>
      [] item.written = "Operator" ->
            CASE item.text = "+" -> <<Tok("Plus", space)>>
              [] item.text = "-" -> <<Tok("Minus", space)>>
              [] item.text = "*" -> <<Tok("Star", space)>>
              [] item.text = "/" -> <<Tok("Slash", space)>>
              [] item.text = "==" -> <<Tok("Equals", space), Tok("Equals", FALSE)>>
              [] item.text = "!=" ->
                    <<Tok("ExclamationMark", space), Tok("Equals", FALSE)>>
              [] OTHER -> <<WordTok(item.text, space)>>

\* the tokens of a text made of the items, written with a space between any
\* two items, or (compact) only with the spaces that words need
RECURSIVE Tokenize(_, _, _)
Tokenize(items, compact, i) ==
    IF i > Len(items) THEN <<>>
    ELSE LET space == /\ i > 1
                      /\ \/ ~compact
                         \/ EndsWithWord(items[i - 1])
                         \/ StartsWithWord(items[i])
         IN  TokensOf(items[i], space) \o Tokenize(items, compact, i + 1)

TestTerms1 == {NumberText(1), VariableText("a")}
TestTerms2 == {NumberText(2), VariableText("b")}
TestTerms3 == {NumberText(3), VariableText("c")}

\* the binary operator a written operator stands for
OperatorOf(item) ==
    CASE item.text = "+" -> "Plus"
      [] item.text = "-" -> "Minus"
      [] item.text = "*" -> "Multiply"
      [] item.text = "/" -> "Divide"
      [] item.text \in {"==", "eq"} -> "Equals"
      [] item.text \in {"!=", "neq"} -> "NotEquals"
      [] item.text = "and" -> "And"
      [] item.text = "or" -> "Or"

\* the expression a written term stands for
TermOf(item) ==
    IF item.written = "Number" THEN Term(NumberV(F32(item.n)))
    ELSE Variable(item.name)

\* the texts t1 op1 t2 op2 t3, each with the expression that nests the
\* second operator under the first
Chains ==
    { [text |-> Tokenize(<<t1, o1, t2, o2, t3>>, compact, 1),
       nested |-> Binary(OperatorOf(o1), TermOf(t1),
                      Binary(OperatorOf(o2), TermOf(t2), TermOf(t3)))] :
        t1 \in TestTerms1, o1 \in OperatorTexts, t2 \in TestTerms2,
        o2 \in OperatorTexts, t3 \in TestTerms3, compact \in BOOLEAN }

ChainTexts == {chain.text : chain \in Chains}

\* other texts: shorter chains, unary operators, parentheses, and texts
\* that are no expression
OtherTexts ==
    { Tokenize(<<t1>>, FALSE, 1) : t1 \in TestTerms1 }
        \cup { Tokenize(<<t1, o1, t2>>, c, 1) :
                t1 \in TestTerms1, o1 \in OperatorTexts, t2 \in TestTerms2,
                c \in BOOLEAN }
        \cup { <<Tok("Minus", FALSE)>> \o Tokenize(<<t1, OperatorText("+"), t2>>, FALSE, 1) :
                t1 \in TestTerms1, t2 \in TestTerms2 }
        \cup { <<Tok("ExclamationMark", FALSE)>> \o Tokenize(<<t1>>, TRUE, 1) :
                t1 \in TestTerms1 }
        \cup { <<Tok("LeftParenthesis", FALSE)>> \o Tokenize(<<t1, OperatorText("+"), t2>>, TRUE, 1)
                  \o <<Tok("RightParenthesis", space)>> \o Tokenize(<<OperatorText("*"), t3>>, TRUE, 1) :
                t1 \in TestTerms1, t2 \in TestTerms2, t3 \in TestTerms3,
                space \in BOOLEAN }
        \cup { Tokenize(<<t1, o1>>, FALSE, 1) : t1 \in TestTerms1, o1 \in OperatorTexts }
        \cup { Tokenize(<<o1, t1>>, FALSE, 1) : t1 \in TestTerms1, o1 \in OperatorTexts }
        \cup { Tokenize(<<t1, t2>>, FALSE, 1) : t1 \in TestTerms1, t2 \in TestTerms2 }
        \cup { <<Tok("DollarSign", FALSE)>>,
               <<NumberTok(F32(1), FALSE), Tok("Equals", TRUE), NumberTok(F32(2), TRUE)>>,
               <<NumberTok(F32(1), FALSE), WordTok("to", TRUE), NumberTok(F32(2), TRUE)>>,
               <<>> }

ExprInit ==
    /\ nodes = <<>>
    /\ conversation = NoConversation
    /\ variables = <<>>
    /\ functions = <<>>
    /\ conversion_ended = FALSE
    /\ pc = "idle"
    /\ ret = UnitRet
    /\ op = "new"
    /\ tokenizer \in ChainTexts \cup OtherTexts

\* parse_expr(&mut tokenizer): the result is kept with the input left over
ParseExpr ==
    /\ op = "new"
    /\ op' = "parse_expr"
    /\ ret' = parse_expr(tokenizer)
    /\ tokenizer' = IF ret'.ok THEN ret'.rest ELSE <<>>
    /\ UNCHANGED <<nodes, conversation, variables, functions, conversion_ended, pc>>

ExprNext == ParseExpr

ExprSpec == ExprInit /\ [][ExprNext]_vars

\* C25: for every text t1 op1 t2 op2 t3 (terms a number or a variable, the
\* operators any of the ten written binary operators, with or without
\* optional spaces) parse_expr consumes the whole text and returns
\* Binary(op1, t1, Binary(op2, t2, t3)), whatever the operators are.
C25_RightAssociativeNoPrecedence ==
    [][ \A chain \in Chains :
            (ParseExpr /\ tokenizer = chain.text)
                => ret' = Parsed(chain.nested, <<>>)
      ]_vars

\* $a * $b + $c was parsed as a * (b + c)
C25_Witness ==
    /\ op = "parse_expr"
    /\ ret = Parsed(Binary("Multiply", Variable("a"),
                        Binary("Plus", Variable("b"), Variable("c"))), <<>>)

(***************************************************************************)
(* Lines.  The text of a node body is modelled line by line; a line is     *)
(* given by how it starts and by the parts do_parse_line cuts it into:     *)
(*   TextLine(text)              a line that starts with a word            *)
(*   TagLine(keyword, text)      <<keyword text>>                          *)
(*   SetLine(var, tokens)        <<set var expr>>, expr as its tokens      *)
(*   LinkLine(parts)             [[a]] or [[a|b]], parts split at '|'      *)
(*   ArrowLine(text)             -> text                                   *)
(*   RuleLine(char)              --- or ===                                *)
(*   HeaderLine(name, value)     name value, name a word ("title:")        *)
(* Lines are not indented.                                                 *)
(***************************************************************************)
TextLine(text) == [line |-> "text", text |-> text]
TagLine(keyword, text) == [line |-> "<<", keyword |-> keyword, text |-> text]
SetLine(var, tokens) == [line |-> "<<", keyword |-> "set", var |-> var, tokens |-> tokens]
LinkLine(parts) == [line |-> "[[", parts |-> parts]
ArrowLine(text) == [line |-> "->", text |-> text]
RuleLine(char) == [line |-> "rule", char |-> char]
HeaderLine(name, value) == [line |-> "header", name |-> name, value |-> value]

\* enum Line
LineDialogue(text) == [kind |-> "Dialogue", text |-> text]
LineIf(text) == [kind |-> "If", text |-> text]
LineElseIf(text) == [kind |-> "ElseIf", text |-> text]
LineElse == [kind |-> "Else"]
LineEndIf == [kind |-> "EndIf"]
LineAction(line) == [kind |-> "Action", action |-> line]
LineOption(parts) == [kind |-> "Option", parts |-> parts]
LineInlineOption(text) == [kind |-> "InlineOption", text |-> text]

\* Conditional::Tmp(s): the condition kept as its text
Tmp(text) == [kind |-> "Tmp", text |-> text]

\* a parse that hit unreachable!()
ParsePanic == [ok |-> FALSE, panic |-> TRUE]

\* TokenIterator::peek at the start of a line
PeekLine(lines) ==
    IF lines = <<>> THEN "None"
    ELSE LET l == Head(lines)
         IN  CASE l.line \in {"text", "header"} -> "a"
               [] l.line = "<<" -> "<"
               [] l.line = "[[" -> "["
               [] l.line = "->" -> "-"
               [] l.line = "rule" -> l.char

\* do_parse_line
do_parse_line(l) ==
    CASE l.line \in {"text", "header"} ->
            Ok(LineDialogue(IF l.line = "text" THEN l.text ELSE l.name \o l.value))
      [] l.line = "<<" ->
            CASE l.keyword = "if" -> Ok(LineIf(l.text))
              [] l.keyword = "elseif" -> Ok(LineElseIf(l.text))
              [] l.keyword = "else" -> Ok(LineElse)
              [] l.keyword = "endif" -> Ok(LineEndIf)
              [] OTHER -> Ok(LineAction(l))
      [] l.line = "[[" -> Ok(LineOption(l.parts))
      [] l.line = "->" -> Ok(LineInlineOption(l.text))
      [] l.line = "rule" -> Err

\* parse_line: the Line of the next line of the input
parse_line(lines) ==
    IF lines = <<>> THEN Err
    ELSE LET l == do_parse_line(Head(lines))
         IN  IF l.ok THEN Parsed(l.v, Tail(lines)) ELSE Err

\* Ok(None) of try_parse_option
NoOption == [kind |-> "None"]

\* try_parse_option
try_parse_option(lines) ==
    IF PeekLine(lines) \in {"[", "-"}
    THEN LET l == parse_line(lines)
         IN  IF ~l.ok THEN Err
             ELSE IF l.v.kind = "Option" /\ Len(l.v.parts) > 1
             THEN Parsed(External(l.v.parts[1], l.v.parts[2]), l.rest)
             ELSE IF l.v.kind = "InlineOption"
             THEN Parsed([kind |-> "Inline", text |-> l.v.text], l.rest)
             ELSE ParsePanic
    ELSE Parsed(NoOption, lines)

\* ConditionalParts
ConditionalParts(if_steps, else_ifs, else_steps) ==
    [if_steps |-> if_steps, else_ifs |-> else_ifs, else_steps |-> else_steps]

\* parse_conditional with steps.push(step) going to the if-branch in
\* every phase
PushStep_AlwaysIf(parts, phase, step) ==
    [parts EXCEPT !.if_steps = Append(@, step)]

\* parse_conditional: steps.push(step), steps chosen by the phase
PushStep(parts, phase, step) ==
    CASE phase = "If" -> [parts EXCEPT !.if_steps = Append(@, step)]
      [] phase = "ElseIf" ->
            [parts EXCEPT !.else_ifs[Len(parts.else_ifs)].steps = Append(@, step)]
      [] phase = "Else" -> [parts EXCEPT !.else_steps = Append(@, step)]

RECURSIVE parse_options(_, _)
RECURSIVE parse_conditional_loop(_, _, _)
RECURSIVE parse_conditional(_)
RECURSIVE parse_toplevel_line(_, _)

\* parse_toplevel_line, Line::Dialogue: the loop over try_parse_option
parse_options(lines, choices) ==
    LET opt == try_parse_option(lines)
    IN  IF ~opt.ok THEN opt
        ELSE IF opt.v.kind = "None" THEN Parsed(choices, lines)
        ELSE IF opt.v.kind = "Inline" THEN Err
        ELSE parse_options(opt.rest, Append(choices, opt.v))

\* parse_toplevel_line
parse_toplevel_line(lines, l) ==
    CASE l.kind = "Dialogue" ->
            LET choices == parse_options(lines, <<>>)
            IN  IF ~choices.ok THEN choices
                ELSE Parsed(Dialogue(l.text, choices.v), choices.rest)
      [] l.kind = "If" ->
            LET parts == parse_conditional(lines)
            IN  IF ~parts.ok THEN parts
                ELSE Parsed(Conditional(Tmp(l.text), parts.v.if_steps,
                                        parts.v.else_ifs, parts.v.else_steps),
                            parts.rest)
      [] l.kind = "Action" ->
            IF l.action.keyword = "set"
            THEN LET expr == parse_expr(l.action.tokens)
                 IN  IF l.action.tokens = <<>> THEN Err
                     ELSE IF ~expr.ok THEN Err
                     ELSE Parsed(Assign(l.action.var, expr.v), lines)
            ELSE Parsed(Command(l.action.text), lines)
      [] l.kind = "Option" /\ Len(l.parts) = 1 -> Parsed(Jump(l.parts[1]), lines)
      [] OTHER -> Err

\* parse_conditional: the loop, with the parts and the phase so far
parse_conditional_loop(lines, parts, phase) ==
    LET l == parse_line(lines)
    IN  IF ~l.ok THEN Err
        ELSE CASE l.v.kind = "ElseIf" ->
                    IF phase = "Else" THEN Err
                    ELSE parse_conditional_loop(l.rest,
                             [parts EXCEPT !.else_ifs =
                                 Append(@, [expr |-> Tmp(l.v.text), steps |-> <<>>])],
                             "ElseIf")
               [] l.v.kind = "Else" ->
                    IF phase = "Else" THEN Err
                    ELSE parse_conditional_loop(l.rest, parts, "Else")
               [] l.v.kind = "EndIf" -> Parsed(parts, l.rest)
               [] OTHER ->
                    LET step == parse_toplevel_line(l.rest, l.v)
                    IN  IF ~step.ok THEN step
                        ELSE parse_conditional_loop(step.rest,
                                 PushStep(parts, phase, step.v), phase)

\* parse_conditional
parse_conditional(lines) ==
    parse_conditional_loop(lines, ConditionalParts(<<>>, <<>>, <<>>), "If")

(***************************************************************************)
(* parse_conditional on its own: the tokenizer stands just behind an       *)
(* <<if ...>> line, on a text of at most MaxLines lines, and one step      *)
(* parses the conditional region.                                          *)
(***************************************************************************)
\* the lines of a region: two body lines and the three control lines
RegionLines ==
    { TextLine("say"), TagLine("other", "cmd"),
      TagLine("elseif", "p"), TagLine("else", ""), TagLine("endif", "") }

\* the texts of at most MaxLines of these lines
RegionTexts == UNION { [1..n -> RegionLines] : n \in 0..MaxLines }

\* texts with a nested conditional, a line with options, an assignment, a
\* jump, and lines no step starts with
OtherRegionTexts ==
    { <<TagLine("if", "q"), TextLine("in"), TagLine("endif", ""),
        TextLine("out"), TagLine("endif", "")>>,
      <<TagLine("elseif", "p"), TagLine("if", "q"), TagLine("else", ""),
        TextLine("in"), TagLine("endif", ""), TagLine("else", ""), TagLine("endif", "")>>,
      <<TagLine("if", "q"), TextLine("in"), TagLine("endif", "")>>,
      <<TextLine("ask"), LinkLine(<<"yes", "Y">>), LinkLine(<<"no", "N">>),
        TagLine("endif", "")>>,
      <<TextLine("ask"), ArrowLine("yes"), TagLine("endif", "")>>,
      <<TextLine("ask"), LinkLine(<<"N">>), TagLine("endif", "")>>,
      <<TextLine("ask"), RuleLine("-"), TagLine("endif", "")>>,
      <<LinkLine(<<"N">>), TagLine("endif", "")>>,
      <<LinkLine(<<"yes", "Y">>), TagLine("endif", "")>>,
      <<ArrowLine("yes"), TagLine("endif", "")>>,
      <<RuleLine("="), TagLine("endif", "")>>,
      <<SetLine("$x", <<NumberTok(F32(1), TRUE)>>), TagLine("endif", "")>>,
      <<SetLine("$x", <<WordTok("to", TRUE), NumberTok(F32(1), TRUE)>>),
        TagLine("endif", "")>>,
      <<SetLine("$x", <<>>), TagLine("endif", "")>> }

ConditionalInit ==
    /\ nodes = <<>>
    /\ conversation = NoConversation
    /\ variables = <<>>
    /\ functions = <<>>
    /\ conversion_ended = FALSE
    /\ pc = "idle"
    /\ ret = UnitRet
    /\ op = "new"
    /\ tokenizer \in RegionTexts \cup OtherRegionTexts

\* parse_conditional(&mut tokenizer)
ParseConditional ==
    /\ op = "new"
    /\ op' = "parse_conditional"
    /\ ret' = parse_conditional(tokenizer)
    /\ tokenizer' = IF ret'.ok THEN ret'.rest ELSE <<>>
    /\ UNCHANGED <<nodes, conversation, variables, functions, conversion_ended, pc>>

ConditionalNext == ParseConditional

ConditionalSpec == ConditionalInit /\ [][ConditionalNext]_vars

\* the line is the control line <<keyword>>
IsControl(l, keyword) == l.line = "<<" /\ l.keyword = keyword

\* the line is a body line: a line of dialogue or a command
IsBody(l) == l \in {TextLine("say"), TagLine("other", "cmd")}

\* the step a body line stands for
StepOfLine(l) ==
    IF l.line = "text" THEN Dialogue(l.text, <<>>) ELSE Command(l.text)

\* the index of the first endif line of the text, 0 when it has none
FirstEndIf(text) ==
    IF \E i \in 1..Len(text) : IsControl(text[i], "endif")
    THEN CHOOSE i \in 1..Len(text) :
            /\ IsControl(text[i], "endif")
            /\ \A j \in 1..(i - 1) : ~IsControl(text[j], "endif")
    ELSE 0

\* an elseif or an else line follows an else line
Misordered(region) ==
    \E i, j \in 1..Len(region) :
        /\ i < j
        /\ IsControl(region[i], "else")
        /\ IsControl(region[j], "else") \/ IsControl(region[j], "elseif")

\* the region open at line k: -1 for the else-region when an else line
\* precedes it, else the number of elseif lines that precede it (0 for the
\* if-region, i for the region of the i-th elseif)
OpenRegion(region, k) ==
    IF \E i \in 1..(k - 1) : IsControl(region[i], "else") THEN -1
    ELSE Cardinality({i \in 1..(k - 1) : IsControl(region[i], "elseif")})

\* the steps of the body lines at which region r is open, in text order
RECURSIVE RoutedSteps(_, _, _)
RoutedSteps(region, r, k) ==
    IF k > Len(region) THEN <<>>
    ELSE IF IsBody(region[k]) /\ OpenRegion(region, k) = r
    THEN <<StepOfLine(region[k])>> \o RoutedSteps(region, r, k + 1)
    ELSE RoutedSteps(region, r, k + 1)

\* the parts a well-ordered region stands for
RoutedParts(region) ==
    LET elseifs == SelectSeq(region, LAMBDA l : IsControl(l, "elseif"))
    IN  ConditionalParts(
            RoutedSteps(region, 0, 1),
            [i \in 1..Len(elseifs) |->
                [expr |-> Tmp(elseifs[i].text), steps |-> RoutedSteps(region, i, 1)]],
            RoutedSteps(region, -1, 1))

\* C23: parse_conditional, on a text of body lines and elseif / else /
\* endif lines, fails when the text ends before an endif line and when,
\* before the first endif line, an elseif or an else line follows an else
\* line; otherwise it consumes the text up to that endif line and returns
\* the parts in which every body line is a step of the region open at that
\* line: the if-branch, the branch of the most recent elseif, or the
\* else-branch, in text order.
C23_ConditionalRegions ==
    [][ (ParseConditional /\ \A i \in 1..Len(tokenizer) : tokenizer[i] \in RegionLines)
            => LET end == FirstEndIf(tokenizer)
                   region == SubSeq(tokenizer, 1, end - 1)
               IN  IF end = 0 \/ Misordered(region)
                   THEN ret' = Err
                   ELSE ret' = Parsed(RoutedParts(region),
                                      SubSeq(tokenizer, end + 1, Len(tokenizer)))
      ]_vars

\* the text say / elseif p / cmd / else / say / endif was parsed: one step
\* in the if-branch, one in the branch of the elseif, one in the else-branch
C23_Witness ==
    /\ op = "parse_conditional"
    /\ ret = Parsed(ConditionalParts(
                        <<Dialogue("say", <<>>)>>,
                        <<[expr |-> Tmp("p"), steps |-> <<Command("cmd")>>]>>,
                        <<Dialogue("say", <<>>)>>),
                    <<>>)

\* the operator ? of parse_step: a failed line is the error of the step
StepOfParsedLine(l) ==
    IF ~l.ok THEN Err ELSE parse_toplevel_line(l.rest, l.v)

\* parse_step
parse_step(lines) == StepOfParsedLine(parse_line(lines))

\* parse_node_contents: the steps up to the line ===
RECURSIVE parse_node_contents(_, _)
RECURSIVE PushParsedStep(_, _)
parse_node_contents(lines, steps) ==
    IF PeekLine(lines) = "None" THEN Err
    ELSE IF PeekLine(lines) = "="
    THEN Parsed(steps, Tail(lines))
    ELSE PushParsedStep(parse_step(lines), steps)

\* steps.push(parse_step(tokenizer)?) and the next turn of the loop
PushParsedStep(step, steps) ==
    IF ~step.ok THEN step
    ELSE parse_node_contents(step.rest, Append(steps, step.v))

\* struct Node of lib.rs
ParsedNode(title, extra, steps) ==
    [title |-> title, extra |-> extra, steps |-> steps, visited |-> FALSE]

\* name[..name.len() - 1]: the key of a header line, its name without the
\* last character
KeyOf(name) ==
    CASE name = "title:" -> "title"
      [] name = "tags:" -> "tags"
      [] name = "say" -> "sa"

\* node.steps = parse_node_contents(tokenizer)?; return Ok(node)
NodeOfContents(node, steps) ==
    IF ~steps.ok THEN steps
    ELSE Parsed([node EXCEPT !.steps = steps.v], steps.rest)

\* the name and the value of a header line: a line of one word is a name
\* with an empty value
NameOf(l) == IF l.line = "header" THEN l.name ELSE l.text
ValueOf(l) == IF l.line = "header" THEN l.value ELSE ""

\* the title is stored in the node, every other key in its extra map
WithHeader(node, name, value) ==
    IF name = "title:" THEN [node EXCEPT !.title = value]
    ELSE [node EXCEPT !.extra = Insert(@, KeyOf(name), value)]

\* parse_node: the loop, with the node built so far
RECURSIVE parse_node_loop(_, _)
parse_node_loop(lines, node) ==
    IF lines = <<>> THEN Err
    ELSE IF Head(lines).line \in {"header", "text"}
    THEN IF NameOf(Head(lines)) = "title:" /\ node.title # "" THEN Err
         ELSE parse_node_loop(Tail(lines),
                  WithHeader(node, NameOf(Head(lines)), ValueOf(Head(lines))))
    ELSE IF Head(lines) = RuleLine("-")
    THEN NodeOfContents(node, parse_node_contents(Tail(lines), <<>>))
    ELSE Err

\* parse_node
parse_node(lines) == parse_node_loop(lines, ParsedNode("", <<>>, <<>>))

(***************************************************************************)
(* parse_node on its own: the tokenizer stands at the start of the text of *)
(* a node and one step parses the node.                                    *)
(***************************************************************************)
HeaderLines ==
    { HeaderLine("title:", "A"), HeaderLine("title:", "B"), HeaderLine("title:", ""),
      HeaderLine("tags:", "t"), HeaderLine("tags:", "u") }

\* the headers of at most MaxHeaderLines lines
HeaderTexts == UNION { [1..n -> HeaderLines] : n \in 0..MaxHeaderLines }

\* node bodies that parse, each with its closing line ===
BodyTexts ==
    { <<RuleLine("=")>>,
      <<TextLine("say"), RuleLine("=")>>,
      <<TagLine("if", "q"), TextLine("say"), TagLine("endif", ""),
        TagLine("other", "cmd"), RuleLine("=")>> }

\* what follows a header in a text that is no node: no body at all, a body
\* without the line ===, an unfinished conditional, a line that is neither
\* a header line nor ---
BrokenTexts ==
    { <<>>,
      <<RuleLine("-")>>,
      <<RuleLine("-"), TextLine("say")>>,
      <<RuleLine("-"), TagLine("if", "q"), TextLine("say"), RuleLine("=")>>,
      <<TextLine("say"), RuleLine("-"), RuleLine("=")>>,
      <<TagLine("other", "cmd"), RuleLine("-"), RuleLine("=")>>,
      <<ArrowLine("x"), RuleLine("=")>>,
      <<RuleLine("=")>> }

NodeTexts ==
    { header \o <<RuleLine("-")>> \o body : header \in HeaderTexts, body \in BodyTexts }
        \cup { header \o broken : header \in HeaderTexts, broken \in BrokenTexts }

NodeInit ==
    /\ nodes = <<>>
    /\ conversation = NoConversation
    /\ variables = <<>>
    /\ functions = <<>>
    /\ conversion_ended = FALSE
    /\ pc = "idle"
    /\ ret = UnitRet
    /\ op = "new"
    /\ tokenizer \in NodeTexts

\* parse_node(&mut tokenizer)
ParseNode ==
    /\ op = "new"
    /\ op' = "parse_node"
    /\ ret' = parse_node(tokenizer)
    /\ tokenizer' = IF ret'.ok THEN ret'.rest ELSE <<>>
    /\ UNCHANGED <<nodes, conversation, variables, functions, conversion_ended, pc>>

NodeNext == ParseNode

NodeSpec == NodeInit /\ [][NodeNext]_vars

\* the index of the line --- that ends the header, 0 when the text has none
HeaderEnd(text) ==
    IF \E i \in 1..Len(text) : text[i] = RuleLine("-")
    THEN CHOOSE i \in 1..Len(text) :
            /\ text[i] = RuleLine("-")
            /\ \A j \in 1..(i - 1) : text[j] # RuleLine("-")
    ELSE 0

\* the text is a header of key: value lines, the line --- and a body that
\* parses
IsNodeText(text) ==
    /\ HeaderEnd(text) > 0
    /\ \A i \in 1..(HeaderEnd(text) - 1) : text[i] \in HeaderLines
    /\ SubSeq(text, HeaderEnd(text) + 1, Len(text)) \in BodyTexts

\* the title lines of a header
TitleLines(header) == SelectSeq(header, LAMBDA l : l.name = "title:")

\* the extra map of a header: each key other than title with the value of
\* its last line
ExtraOf(header) ==
    LET others == SelectSeq(header, LAMBDA l : l.name # "title:")
    IN  [key \in {KeyOf(others[i].name) : i \in 1..Len(others)} |->
            LET last == CHOOSE i \in 1..Len(others) :
                            /\ KeyOf(others[i].name) = key
                            /\ \A j \in (i + 1)..Len(others) : KeyOf(others[j].name) # key
            IN  others[last].value]

\* C24: parse_node requires the key title exactly once: on a text whose
\* header reaches the line --- with no title line, or with two or more
\* title lines, it returns a parse error; on a header with exactly one
\* title line it returns the node with that title, and with every other
\* key: value line of the header in its extra map.
C24_TitleExactlyOnce ==
    [][ (ParseNode /\ IsNodeText(tokenizer))
            => LET header == SubSeq(tokenizer, 1, HeaderEnd(tokenizer) - 1)
               IN  IF Len(TitleLines(header)) # 1
                   THEN ret' = Err
                   ELSE /\ ret'.ok
                        /\ ret'.v.title = TitleLines(header)[1].value
                        /\ ret'.v.extra = ExtraOf(header)
      ]_vars

(***************************************************************************)
(* The scope stack and the step tree of the active node.                   *)
(***************************************************************************)
\* the scope stack is a path in the step tree of the active node:
\* get_current_step descends through it without an expect that fails, an
\* index out of bounds or an unreachable!()
WellFormedScope ==
    (conversation.some /\ conversation.node \in DOMAIN nodes)
        => CurrentStep.tag # "Panic"

\* the operations of the claim: a load that succeeds, an activate of a node
\* of the registry, an iteration of a pull, a choose of a choice of the
\* current Dialogue
ScopeOperation ==
    \/ \E s \in Scripts : load_from_string(s) /\ ret' = OkRet
    \/ \E node \in DOMAIN nodes : activate(node)
    \/ InNext /\ op' = "next"
    \/ \E choice \in 0..MaxChoice : choose(choice) /\ ~InvalidChoice(choice)

\* C26: the scope stack is a well-formed path in the step tree of the
\* active node in every state the engine reaches by loads that succeed
\* (one that replaces the node of the active conversation included),
\* activates of nodes of the registry, pulls and valid chooses: each of
\* these operations, taken in a state whose scope stack is well formed,
\* ends in a state whose scope stack is well formed, so that resolving the
\* current step never panics.
C26_ScopeStackWellFormed ==
    [][ (WellFormedScope /\ ScopeOperation) => WellFormedScope' ]_vars

(***************************************************************************)
(* Termination of a pull.  A call of next runs its loop to the return: an  *)
(* iteration that ends in the next iteration (pc = "next") is followed by  *)
(* that iteration, whatever the host does between calls.                   *)
(***************************************************************************)
\* an iteration of the loop of next inside a call
LoopIteration == pc = "next" /\ Next

PullSpec == Init /\ [][Next]_vars /\ WF_vars(LoopIteration)

\* the call of next has returned an event
Returned == pc = "idle" /\ op = "next" /\ ret.kind \in EventKinds

\* C27: every pull terminates: from a state inside the loop of next, after
\* a silent step (Assign, Jump, Conditional), the loop reaches the return
\* of a Say, Choose, Command or EndConversation after finitely many
\* iterations, also in a script whose Jump steps form a cycle through
\* nodes before any line or command.  (A pull that
\* aborts on an evaluation that fails, or on a step that does not resolve,
\* is set aside.)
C27_PullTerminates ==
    (pc = "next") ~> (Returned \/ pc = "panic")

(***************************************************************************)
(* A conversation driven to its end.  The registry is acyclic (no path of  *)
(* Jump and External-choice targets comes back to a node) and holds every  *)
(* target; the host has set the variable and registered the function the   *)
(* scripts read, so that no evaluation fails; it activates a node, pulls,  *)
(* and answers every Choose by a choose of one of the listed choices.      *)
(***************************************************************************)
\* a node with nested inline choices whose targets jump nowhere
MenuNode ==
    Node("Menu", <<
        Dialogue("pick", <<
            Inline("in", <<
                Command("c"),
                Dialogue("sure", <<
                    Inline("yes", << Dialogue("ok", <<>>) >>),
                    External("out", "Ghost") >>),
                Dialogue("then", <<>>) >>),
            External("solo", "Solo") >>),
        Dialogue("after", <<>>) >>)

\* End1 -> End2 -> A -> Start -> Ghost, Menu -> Ghost, Menu -> Solo
DrivenRegistry ==
    InsertAll(<<>>, << End1Node, End2Node, ANode, PatchStartNode, GhostNode,
                       SoloNode, MenuNode >>)

DrivenInit ==
    /\ nodes = DrivenRegistry
    /\ \E node \in DOMAIN DrivenRegistry : conversation = NewConversation(node)
    /\ \E value \in HostValues : variables = Insert(<<>>, "y", value)
    /\ functions = Insert([n \in {"visited"} |-> [num_args |-> 1, callback |-> "visited"]],
                          "f", [num_args |-> 0, callback |-> "host_true"])
    /\ conversion_ended = FALSE
    /\ pc = "idle"
    /\ ret = UnitRet
    /\ op = "activate"
    /\ tokenizer = << >>

\* the last pull returned a Choose that the host has not answered
AwaitsChoice == pc = "idle" /\ op = "next" /\ ret.kind = "Choose"

\* the host answers a Choose by a choose of a listed choice
Answer ==
    /\ AwaitsChoice
    /\ \E choice \in 0..MaxChoice : choose(choice) /\ ~InvalidChoice(choice)

\* the host pulls unless a Choose awaits its answer; the loop of a pull
\* goes on by itself
DrivenNext ==
    \/ ~AwaitsChoice /\ NextEnded
    \/ ~AwaitsChoice /\ NextEndConversation
    \/ ~AwaitsChoice /\ NextSay
    \/ ~AwaitsChoice /\ NextChoose
    \/ ~AwaitsChoice /\ NextCommand
    \/ ~AwaitsChoice /\ NextAssign
    \/ ~AwaitsChoice /\ NextJump
    \/ ~AwaitsChoice /\ NextConditional
    \/ Answer

DrivenSpec == DrivenInit /\ [][DrivenNext]_vars /\ WF_vars(DrivenNext)

\* C28: with an acyclic registry that holds every target, a conversation
\* driven by repeated pulls, in which the host answers every Choose by a
\* valid choose and no evaluation fails, eventually emits EndConversation.
C28_DrivenConversationEnds ==
    <>(pc = "idle" /\ op = "next" /\ ret = EndConversation)

\* a driven conversation has ended in Ghost, which it entered by the answer
\* to a Choose, and no pull has panicked
C28_Witness ==
    /\ pc = "idle"
    /\ op = "next"
    /\ ret = EndConversation
    /\ conversation.node = "Ghost"
    /\ conversion_ended

(***************************************************************************)
(* The order in which a Conditional step evaluates its conditions.         *)
(***************************************************************************)
\* the else-if (0-based) whose condition is the first truthy one, every
\* condition before it, the primary one included, being falsy
FirstTruthyElseIf(step, i) ==
    /\ i < Len(step.else_ifs)
    /\ Falsy(step.expr)
    /\ \A j \in 0..(i - 1) : Falsy(step.else_ifs[j + 1].expr)
    /\ Truthy(step.else_ifs[i + 1].expr)

\* a condition after the selecting one would fail if it were evaluated
LaterConditionFails(step, from) ==
    \E j \in from..(Len(step.else_ifs) - 1) : Fails(step.else_ifs[j + 1].expr)

\* C29: a Conditional step evaluates its conditions in the order primary,
\* else-if 0, else-if 1, ... and stops at the first truthy one: with a
\* truthy primary condition no else-if condition is evaluated, and none
\* after the first truthy else-if, so the step enters the selected branch
\* and the pull goes on even when a later condition would fail to
\* evaluate.
C29_StopsAtFirstTruthy ==
    [][ ( /\ Dispatching
          /\ CurrentStep.step.kind = "Conditional"
          /\ op' = "next" )
            => LET step == CurrentStep.step
               IN  /\ Truthy(step.expr)
                        => /\ pc' = "next"
                           /\ conversation' = push_step(conversation, SIIf(0))
                   /\ \A i \in 0..(Len(step.else_ifs) - 1) :
                        FirstTruthyElseIf(step, i)
                            => /\ pc' = "next"
                               /\ conversation' = push_step(conversation, SIElseIf(i, 0))
      ]_vars

\* End1's conditional has entered the branch of else-if 0 (the primary
\* condition falsy, y truthy) in a state in which the condition of else-if
\* 1, the call of f, fails
C29_Witness ==
    /\ pc = "next"
    /\ op = "next"
    /\ conversation =
           push_step([NewConversation("End1") EXCEPT !.base_index = 1], SIElseIf(0, 0))
    /\ FirstTruthyElseIf(End1Node.steps[2], 0)
    /\ LaterConditionFails(End1Node.steps[2], 1)

(***************************************************************************)
(* and / or on operands that may fail to evaluate: the operands are the    *)
(* variables a and b, each assigned a value or never assigned.             *)
(***************************************************************************)
LogicValues ==
    { BooleanV(TRUE), BooleanV(FALSE), NumberV(F32(0)), NumberV(F32(1)),
      StringV(""), StringV("x") }

LogicOps == {"And", "Or"}

LogicInit ==
    /\ nodes = <<>>
    /\ conversation = NoConversation
    /\ \E assigned \in SUBSET {"a", "b"} : variables \in [assigned -> LogicValues]
    /\ functions = <<>>
    /\ conversion_ended = FALSE
    /\ pc = "idle"
    /\ ret = UnitRet
    /\ op = "new"
    /\ tokenizer = << >>

LogicNext == \E o \in LogicOps : EvaluateBinary(o)

LogicSpec == LogicInit /\ [][LogicNext]_vars

\* the read of the variable is an EvalError
Unassigned(name) == name \notin DOMAIN variables

\* C30: and / or evaluate both operands before combining them: the
\* expression is an EvalError whenever the left or the right operand is,
\* also when the left operand alone would decide the result (false and X,
\* true or X), and otherwise the Boolean combination of the truthiness of
\* both operands.
C30_NoShortCircuit ==
    op \in LogicOps
        => IF Unassigned("a") \/ Unassigned("b")
           THEN ret = Err
           ELSE ret = Ok(BooleanV(IF op = "And"
                                  THEN as_bool(OperandA) /\ as_bool(OperandB)
                                  ELSE as_bool(OperandA) \/ as_bool(OperandB)))

\* true or X was evaluated with X a variable never assigned, and is an
\* error
C30_Witness ==
    /\ op = "Or"
    /\ ~Unassigned("a")
    /\ OperandA = BooleanV(TRUE)
    /\ Unassigned("b")
    /\ ret = Err

====
